---------------------------- MODULE Spec2Model ----------------------------
(***************************************************************************)
(* Fire-monitoring backend: the incident store (table `fires`) and the     *)
(* HTTP handlers that write and read it.                                   *)
(*                                                                         *)
(* The repository holds the server in several revisions.  src/server.js    *)
(* and the server embedded in src/unnamed/part_001 share the schema and    *)
(* the create / get / update / delete handlers line for line; they differ  *)
(* in rowToGeoJSON (part_001 leaves `id` out of the properties) and in the *)
(* bulk delete route (server.js only).  `variant` says which revision runs.*)
(***************************************************************************)
EXTENDS Integers, Sequences, FiniteSets, TLC

(***************************************************************************)
(* Bounds of the model.                                                    *)
(***************************************************************************)
\* number of HTTP requests the model lets the server handle
MaxRequests == 2
\* number of seconds the wall clock may advance
MaxTime == 1
\* the notification-side requests (dispatches, initializations, sends)
\* started in a run
MaxOps == 3
\* the evacuation points of a notification whose text is built
MaxPoints == 2

(***************************************************************************)
(* JavaScript / JSON / SQLite values.  Every value has the same shape so   *)
(* that values of different types can be compared.                         *)
(*   k : "undefined" | "null" | "number" | "string" | "datetime"           *)
(*   n : a number, in ten-thousandths (34.6857 is 346857); for a datetime  *)
(*       the second it denotes                                             *)
(*   s : the characters of a string                                        *)
(***************************************************************************)
Undefined == [k |-> "undefined", n |-> 0, s |-> ""]
Null == [k |-> "null", n |-> 0, s |-> ""]
Dec(units, frac) == [k |-> "number", n |-> units * 10000 + frac, s |-> ""]
Num(units) == Dec(units, 0)
Str(chars) == [k |-> "string", n |-> 0, s |-> chars]
\* the text CURRENT_TIMESTAMP yields at second t ('YYYY-MM-DD HH:MM:SS'
\* orders as the seconds do)
Datetime(t) == [k |-> "datetime", n |-> t, s |-> ""]

\* JavaScript ToNumber on a string: the numeric strings the requests carry
NumericStrings == {"45", "91"}
StringToNumber(chars) ==
    CASE chars = "45" -> Num(45)
      [] chars = "91" -> Num(91)
      [] chars = "" -> Num(0)
      [] OTHER -> Undefined

\* JavaScript ToNumber; Undefined stands for NaN
ToNumber(v) ==
    CASE v.k = "number" -> v
      [] v.k = "null" -> Num(0)
      [] v.k = "string" -> StringToNumber(v.s)
      [] OTHER -> Undefined

\* JavaScript !v
Falsy(v) ==
    \/ v.k = "undefined"
    \/ v.k = "null"
    \/ v.k = "number" /\ v.n = 0
    \/ v.k = "string" /\ v.s = ""

\* JavaScript a < b and a > b for a number b: false when a converts to NaN
JsLess(a, b) == ToNumber(a).k = "number" /\ ToNumber(a).n < b.n
JsGreater(a, b) == ToNumber(a).k = "number" /\ ToNumber(a).n > b.n

(***************************************************************************)
(* The schema of table fires (initializeDatabase).                         *)
(***************************************************************************)
TextColumns ==
    {"fire_status", "fire_type", "fuel_type", "terrain_type", "wind_type",
     "agency_in_charge", "response_level", "evacuation_status", "district",
     "nearest_village", "risk_to_settlements", "reporter_name",
     "reporter_contact"}

NumericColumns ==
    {"latitude", "longitude", "fire_intensity", "fire_size", "confidence",
     "slope", "temperature", "humidity", "wind_speed", "wind_direction",
     "firefighters", "vehicles", "aircraft", "distance_to_village"}

Columns ==
    {"id", "timestamp_detected", "last_update"} \cup TextColumns \cup NumericColumns

\* CHECK(fire_status IN (...)) and CHECK(risk_to_settlements IN (...))
FireStatusEnum == {"active", "controlled", "threat"}
RiskEnum == {"low", "medium", "high"}

\* the digits of the fraction f (in ten-thousandths, 1..9999) without
\* trailing zeros
FractionText(f) ==
    LET d1 == ToString(f \div 1000)
        d2 == ToString((f \div 100) % 10)
        d3 == ToString((f \div 10) % 10)
        d4 == ToString(f % 10)
    IN  IF f % 1000 = 0 THEN d1
        ELSE IF f % 100 = 0 THEN d1 \o d2
        ELSE IF f % 10 = 0 THEN d1 \o d2 \o d3
        ELSE d1 \o d2 \o d3 \o d4

\* the text a number bound to a TEXT column is stored as
NumberText(v) ==
    LET a == IF v.n < 0 THEN 0 - v.n ELSE v.n
        sign == IF v.n < 0 THEN "-" ELSE ""
    IN  IF a % 10000 = 0 THEN sign \o ToString(a \div 10000)
        ELSE sign \o ToString(a \div 10000) \o "." \o FractionText(a % 10000)

\* column affinity: what a bound value is stored as in column c
Affinity(c, v) ==
    CASE v.k = "number" /\ c \in TextColumns -> Str(NumberText(v))
      [] v.k = "string" /\ c \in NumericColumns /\ v.s \in NumericStrings ->
            StringToNumber(v.s)
      [] OTHER -> v

\* x IN (set) in SQL: NULL for a NULL x, else true or false
SqlIn(v, enum) ==
    IF v.k = "null" THEN "null"
    ELSE IF v.k = "string" /\ v.s \in enum THEN "true" ELSE "false"

\* a CHECK constraint fails only when its expression is false; NULL passes
CheckOk(row) ==
    /\ SqlIn(row["fire_status"], FireStatusEnum) # "false"
    /\ SqlIn(row["risk_to_settlements"], RiskEnum) # "false"

\* latitude REAL NOT NULL, longitude REAL NOT NULL
NotNullOk(row) ==
    /\ row["latitude"].k # "null"
    /\ row["longitude"].k # "null"

(***************************************************************************)
(* Seed data (seedInitialData): three rows, inserted at second 0 with both *)
(* timestamps defaulted to CURRENT_TIMESTAMP and no reporter.              *)
(***************************************************************************)
\* stmt.run of one fire: the id, both timestamps and the reporter columns
\* are left to the schema
SeedRow(i, fire) ==
    [id |-> Num(i), timestamp_detected |-> Datetime(0),
     last_update |-> Datetime(0), reporter_name |-> Null,
     reporter_contact |-> Null] @@ fire

initialFires ==
    <<SeedRow(1,
        [latitude |-> Dec(34, 6857), longitude |-> Dec(33, 437),
         fire_status |-> Str("active"), fire_type |-> Str("forest"),
         fire_intensity |-> Num(450), fire_size |-> Dec(12, 5000),
         confidence |-> Num(92), fuel_type |-> Str("pine_forest"),
         terrain_type |-> Str("mountain"), slope |-> Num(28),
         temperature |-> Num(35), humidity |-> Num(18),
         wind_speed |-> Num(25), wind_direction |-> Num(270),
         wind_type |-> Str("meltemi"),
         agency_in_charge |-> Str("Cyprus Fire Service"),
         response_level |-> Str("national"), firefighters |-> Num(45),
         vehicles |-> Num(12), aircraft |-> Num(3),
         evacuation_status |-> Str("partial"), district |-> Str("Limassol"),
         nearest_village |-> Str("Troodos"),
         distance_to_village |-> Dec(2, 3000),
         risk_to_settlements |-> Str("high")]),
      SeedRow(2,
        [latitude |-> Dec(35, 1264), longitude |-> Dec(33, 4299),
         fire_status |-> Str("active"), fire_type |-> Str("agricultural"),
         fire_intensity |-> Num(180), fire_size |-> Dec(5, 2000),
         confidence |-> Num(85), fuel_type |-> Str("crop_residue"),
         terrain_type |-> Str("plain"), slope |-> Num(5),
         temperature |-> Num(32), humidity |-> Num(22),
         wind_speed |-> Num(12), wind_direction |-> Num(90),
         wind_type |-> Str("levante"),
         agency_in_charge |-> Str("Cyprus Fire Service"),
         response_level |-> Str("district"), firefighters |-> Num(25),
         vehicles |-> Num(6), aircraft |-> Num(1),
         evacuation_status |-> Str("none"), district |-> Str("Nicosia"),
         nearest_village |-> Str("Nicosia"),
         distance_to_village |-> Dec(0, 8000),
         risk_to_settlements |-> Str("medium")]),
      SeedRow(3,
        [latitude |-> Dec(34, 7575), longitude |-> Dec(32, 4242),
         fire_status |-> Str("controlled"), fire_type |-> Str("grassland"),
         fire_intensity |-> Num(75), fire_size |-> Dec(2, 1000),
         confidence |-> Num(78), fuel_type |-> Str("dry_grass"),
         terrain_type |-> Str("coastal"), slope |-> Num(8),
         temperature |-> Num(28), humidity |-> Num(35),
         wind_speed |-> Num(8), wind_direction |-> Num(180),
         wind_type |-> Str("ostro"),
         agency_in_charge |-> Str("Cyprus Fire Service"),
         response_level |-> Str("local"), firefighters |-> Num(12),
         vehicles |-> Num(3), aircraft |-> Num(0),
         evacuation_status |-> Str("none"), district |-> Str("Paphos"),
         nearest_village |-> Str("Paphos"),
         distance_to_village |-> Dec(1, 2000),
         risk_to_settlements |-> Str("low")])>>

(***************************************************************************)
(* Request bodies.  A body gives each key a value; Undefined says the key  *)
(* is absent (JSON carries no undefined).                                  *)
(***************************************************************************)
BodyKeys == Columns \cup {"status"}
NoBody == [k \in BodyKeys |-> Undefined]
Body(r) == [k \in BodyKeys |-> IF k \in DOMAIN r THEN r[k] ELSE Undefined]

\* Object.keys(body)
ObjectKeys(body) == {k \in BodyKeys : body[k] # Undefined}

\* the bodies POST /api/fires is given
CreateBodies ==
    {Body([latitude |-> Dec(34, 6857), longitude |-> Dec(33, 437),
           fire_status |-> Str("active")]),
     Body([latitude |-> Num(90), longitude |-> Num(-180)]),
     Body([latitude |-> Num(-90), longitude |-> Num(180),
           risk_to_settlements |-> Str("high"), firefighters |-> Num(7),
           district |-> Null, reporter_name |-> Str("Ann"), id |-> Num(99),
           timestamp_detected |-> Str("2020-01-01 00:00:00"),
           last_update |-> Str("2020-01-01 00:00:00")]),
     Body([latitude |-> Num(0), longitude |-> Num(33)]),
     Body([latitude |-> Num(35), longitude |-> Num(0)]),
     Body([latitude |-> Num(91), longitude |-> Num(33)]),
     Body([latitude |-> Num(-91), longitude |-> Num(33)]),
     Body([latitude |-> Num(35), longitude |-> Num(181)]),
     Body([latitude |-> Num(35), longitude |-> Num(-181)]),
     Body([longitude |-> Num(33)]),
     Body([latitude |-> Num(35), longitude |-> Null]),
     Body([latitude |-> Str("91"), longitude |-> Num(33)]),
     Body([latitude |-> Num(35), longitude |-> Num(33),
           fire_status |-> Str("extinguished")]),
     Body([latitude |-> Num(35), longitude |-> Num(33),
           risk_to_settlements |-> Str("extreme")])}

\* the bodies PATCH /api/fires/:id is given
UpdateBodies ==
    {NoBody,
     Body([status |-> Str("contained"), id |-> Num(99),
           latitude |-> Num(10), longitude |-> Num(10),
           timestamp_detected |-> Str("2020-01-01 00:00:00"),
           last_update |-> Str("2020-01-01 00:00:00")]),
     Body([fire_status |-> Str("controlled")]),
     Body([fire_status |-> Str("active")]),
     Body([risk_to_settlements |-> Str("low"), firefighters |-> Num(50),
           id |-> Num(99), latitude |-> Num(10), longitude |-> Num(10),
           timestamp_detected |-> Str("2020-01-01 00:00:00")]),
     Body([fire_status |-> Str("extinguished"), firefighters |-> Num(50)]),
     Body([risk_to_settlements |-> Str("extreme")]),
     Body([fire_status |-> Null])}

(***************************************************************************)
(* State.                                                                  *)
(***************************************************************************)
VARIABLES
    variant,   \* the revision of the server that runs
    fires,     \* table fires: id -> row, for the ids stored
    seq,       \* sqlite_sequence of fires: the largest id ever assigned
    clock,     \* the current second (CURRENT_TIMESTAMP)
    nreq,      \* the number of requests handled so far
    pending,   \* writes whose read-back SELECT has not run yet
    resp,      \* the outcome of the latest handler step
    crashed    \* an exception escaped a callback: the process is gone

\* the notification side: the environment of the process, the module state
\* of the session channel service, the session client, and the dispatcher
VARIABLES
    env,              \* process.env: which channel settings are present
    whatsappClient,   \* let whatsappClient: "null" or the client
    isLoggedIn,       \* let isLoggedIn
    groupChat,        \* let groupChat: the bound group chat, or NoChat
    qrCodeData,       \* let qrCodeData: "null" or the pairing code
    channels,         \* let channels: the channels loaded on ready
    selectedChannel,  \* let selectedChannel, or NoChat
    handlers,         \* the event handlers of the client: the arguments they
                      \* closed over, and whether a call of the qr handler
                      \* is waiting for qrcode.toDataURL
    session,          \* where the session client is in its lifecycle
    created,          \* how many session clients have been constructed
    calls,            \* the calls made on the session client, in order
    dispatch,         \* the notification request being served
    out,              \* the outcome of the latest notification-side operation
    nops,             \* the number of notification-side operations started
    botRequest        \* the latest call of sendTelegramNotification: its
                      \* promise and its https request

storeVars == <<variant, fires, seq, clock, nreq, pending, resp, crashed>>

channelVars ==
    <<env, whatsappClient, isLoggedIn, groupChat, qrCodeData, channels,
      selectedChannel, handlers, session, created, calls, dispatch, out, nops,
      botRequest>>

vars == <<storeVars, channelVars>>

Variants == {"server.js", "part_001"}

\* code 0: no response has been sent (yet)
NoData == [type |-> "none"]
Resp(req, op, id, body, code, error, data, count) ==
    [req |-> req, op |-> op, id |-> id, body |-> body, code |-> code,
     error |-> error, data |-> data, count |-> count]

(***************************************************************************)
(* rowToGeoJSON                                                            *)
(***************************************************************************)
GeoProperties(row) ==
    [timestamp_detected |-> row["timestamp_detected"],
     last_update |-> row["last_update"],
     fire_status |-> row["fire_status"],
     fire_type |-> row["fire_type"],
     fire_intensity |-> row["fire_intensity"],
     fire_size |-> row["fire_size"],
     confidence |-> row["confidence"],
     fuel_type |-> row["fuel_type"],
     terrain_type |-> row["terrain_type"],
     slope |-> row["slope"],
     temperature |-> row["temperature"],
     humidity |-> row["humidity"],
     wind_speed |-> row["wind_speed"],
     wind_direction |-> row["wind_direction"],
     wind_type |-> row["wind_type"],
     agency_in_charge |-> row["agency_in_charge"],
     response_level |-> row["response_level"],
     resources_on_site |-> [firefighters |-> row["firefighters"],
                            vehicles |-> row["vehicles"],
                            aircraft |-> row["aircraft"]],
     evacuation_status |-> row["evacuation_status"],
     district |-> row["district"],
     nearest_village |-> row["nearest_village"],
     distance_to_village |-> row["distance_to_village"],
     risk_to_settlements |-> row["risk_to_settlements"]]

\* src/server.js: the properties start with id
GeoPropertiesWithId(row) == [id |-> row["id"]] @@ GeoProperties(row)

\* a slip: the coordinates are [latitude, longitude]
rowToGeoJSONLatitudeFirst(row) ==
    [type |-> "Feature",
     geometry |-> [type |-> "Point",
                   coordinates |-> <<row["latitude"], row["longitude"]>>],
     properties |-> IF variant = "server.js" THEN GeoPropertiesWithId(row)
                    ELSE GeoProperties(row)]

rowToGeoJSON(row) ==
    [type |-> "Feature",
     geometry |-> [type |-> "Point",
                   coordinates |-> <<row["longitude"], row["latitude"]>>],
     properties |-> IF variant = "server.js" THEN GeoPropertiesWithId(row)
                    ELSE GeoProperties(row)]

(***************************************************************************)
(* POST /api/fires                                                         *)
(***************************************************************************)
\* the defaults of the destructuring of req.body
createDefaults ==
    [fire_status |-> Str("active"), fire_type |-> Str("wildfire"),
     fire_intensity |-> Num(100), fire_size |-> Num(1),
     confidence |-> Num(85), fuel_type |-> Str("mixed_forest"),
     terrain_type |-> Str("mountain"), slope |-> Num(15),
     temperature |-> Num(30), humidity |-> Num(25), wind_speed |-> Num(10),
     wind_direction |-> Num(180), wind_type |-> Str("meltemi"),
     agency_in_charge |-> Str("Cyprus Fire Service"),
     response_level |-> Str("district"), firefighters |-> Num(20),
     vehicles |-> Num(5), aircraft |-> Num(1),
     evacuation_status |-> Str("none"), district |-> Str("Unknown"),
     nearest_village |-> Str("Unknown"), distance_to_village |-> Dec(1, 5000),
     risk_to_settlements |-> Str("medium"), reporter_name |-> Str(""),
     reporter_contact |-> Str("")]

\* const { c = default } = req.body: the default replaces undefined only
Destructure(body, c) ==
    IF body[c] = Undefined /\ c \in DOMAIN createDefaults
    THEN createDefaults[c] ELSE body[c]

\* [..].includes(v)
Includes(enum, v) == v.k = "string" /\ v.s \in enum

\* if (!latitude || !longitude)
PositionMissing(body) == Falsy(body["latitude"]) \/ Falsy(body["longitude"])

\* a slip: the lower bound of the latitude is not checked
LatitudeInvalidUpperOnly(body) == JsGreater(body["latitude"], Num(90))

\* if (latitude < -90 || latitude > 90)
LatitudeInvalid(body) ==
    JsLess(body["latitude"], Num(-90)) \/ JsGreater(body["latitude"], Num(90))

\* if (longitude < -180 || longitude > 180)
LongitudeInvalid(body) ==
    JsLess(body["longitude"], Num(-180)) \/ JsGreater(body["longitude"], Num(180))

\* the validation of the create handler: the error of the first check that
\* fails, "" when all pass
CreateValidation(body) ==
    IF PositionMissing(body) THEN "Latitude and longitude are required"
    ELSE IF LatitudeInvalid(body)
    THEN "Invalid latitude (must be between -90 and 90)"
    ELSE IF LongitudeInvalid(body)
    THEN "Invalid longitude (must be between -180 and 180)"
    ELSE IF ~Includes(FireStatusEnum, Destructure(body, "fire_status"))
    THEN "Invalid fire_status (must be active, controlled, or threat)"
    ELSE IF ~Includes(RiskEnum, Destructure(body, "risk_to_settlements"))
    THEN "Invalid risk_to_settlements (must be low, medium, or high)"
    ELSE ""

\* a slip: column last_update has no DEFAULT CURRENT_TIMESTAMP, so the INSERT
\* leaves it NULL
InsertRowNoLastUpdateDefault(body, id, now) ==
    [c \in Columns |->
        IF c = "id" THEN Num(id)
        ELSE IF c = "timestamp_detected" THEN Datetime(now)
        ELSE IF c = "last_update" THEN Null
        ELSE Affinity(c, Destructure(body, c))]

\* INSERT INTO fires (27 columns) VALUES (...): id from AUTOINCREMENT, both
\* timestamps from DEFAULT CURRENT_TIMESTAMP of the one statement
InsertRow(body, id, now) ==
    [c \in Columns |->
        IF c = "id" THEN Num(id)
        ELSE IF c \in {"timestamp_detected", "last_update"} THEN Datetime(now)
        ELSE Affinity(c, Destructure(body, c))]

\* a slip: id INTEGER PRIMARY KEY without AUTOINCREMENT takes the largest
\* stored rowid plus one
RowidOfLargestStored(table, sequence) ==
    IF DOMAIN table = {} THEN 1
    ELSE (CHOOSE i \in DOMAIN table : \A j \in DOMAIN table : j <= i) + 1

\* id INTEGER PRIMARY KEY AUTOINCREMENT: one more than the largest rowid the
\* table has ever held (sqlite_sequence), whatever has been deleted since
AutoIncrement(table, sequence) == sequence + 1

\* the handler up to and including the INSERT statement
Create(body) ==
    /\ ~crashed
    /\ nreq < MaxRequests
    /\ nreq' = nreq + 1
    /\ LET error == CreateValidation(body)
           lastID == AutoIncrement(fires, seq)
           row == InsertRow(body, lastID, clock)
       IN  IF error # ""
           THEN /\ resp' = Resp(nreq', "create", 0, body, 400, error, NoData, 0)
                /\ UNCHANGED <<fires, seq, pending>>
           ELSE IF ~(NotNullOk(row) /\ CheckOk(row))
           THEN /\ resp' = Resp(nreq', "create", 0, body, 500, "Database error",
                                NoData, 0)
                /\ UNCHANGED <<fires, seq, pending>>
           ELSE /\ fires' = fires @@ (lastID :> row)
                /\ seq' = lastID
                /\ pending' = pending \cup
                       {[req |-> nreq', op |-> "create", id |-> lastID]}
                /\ resp' = Resp(nreq', "create", lastID, body, 0, "", NoData, 0)
    /\ UNCHANGED <<variant, clock, crashed, channelVars>>

\* the callback of the INSERT: SELECT the row of this.lastID and answer 201;
\* rowToGeoJSON(undefined) throws when the row is gone
CreateReadBack(p) ==
    /\ ~crashed
    /\ p.op = "create"
    /\ pending' = pending \ {p}
    /\ IF p.id \in DOMAIN fires
       THEN /\ resp' = Resp(p.req, "create", p.id, NoBody, 201, "",
                            rowToGeoJSON(fires[p.id]), 0)
            /\ crashed' = crashed
       ELSE /\ resp' = Resp(p.req, "create", p.id, NoBody, 0, "TypeError",
                            NoData, 0)
            /\ crashed' = TRUE
    /\ UNCHANGED <<variant, fires, seq, clock, nreq, channelVars>>

(***************************************************************************)
(* GET /api/fires                                                          *)
(***************************************************************************)
\* req.query of the requests: no filter, a filter under either name, one of
\* them a status no incident has
ListQueries ==
    {NoBody,
     Body([fire_status |-> Str("controlled")]),
     Body([status |-> Str("extinguished")])}

\* fire_status || status
statusFilter(query) ==
    IF ~Falsy(query["fire_status"]) THEN query["fire_status"]
    ELSE query["status"]

\* a slip: the WHERE clause is left out
SelectedRowsUnfiltered(table, filter) == DOMAIN table

\* the rows the SELECT yields: all of them, or WHERE fire_status = ?
SelectedRows(table, filter) ==
    IF Falsy(filter) THEN DOMAIN table
    ELSE {i \in DOMAIN table : table[i]["fire_status"] = filter}

\* ORDER BY timestamp_detected DESC: the later detection first; rows
\* detected in the same second come in the order of the scan, by rowid, which
\* is how the sorter of SQLite leaves equal keys
RECURSIVE OrderByDetectedDesc(_, _)
OrderByDetectedDesc(table, ids) ==
    IF ids = {} THEN <<>>
    ELSE LET first ==
               CHOOSE i \in ids : \A j \in ids :
                   \/ table[j]["timestamp_detected"].n
                          < table[i]["timestamp_detected"].n
                   \/ /\ table[j]["timestamp_detected"].n
                            = table[i]["timestamp_detected"].n
                      /\ i <= j
         IN  <<first>> \o OrderByDetectedDesc(table, ids \ {first})

FeatureCollection(table, rows) ==
    [type |-> "FeatureCollection",
     features |-> [n \in 1..Len(rows) |-> rowToGeoJSON(table[rows[n]])]]

List(query) ==
    /\ ~crashed
    /\ nreq < MaxRequests
    /\ nreq' = nreq + 1
    /\ LET rows == OrderByDetectedDesc(fires,
                       SelectedRows(fires, statusFilter(query)))
       IN  resp' = Resp(nreq', "list", 0, query, 200, "",
                        FeatureCollection(fires, rows), 0)
    /\ UNCHANGED <<variant, fires, seq, clock, pending, crashed, channelVars>>

(***************************************************************************)
(* GET /api/fires/:id                                                      *)
(***************************************************************************)
Get(id) ==
    /\ ~crashed
    /\ nreq < MaxRequests
    /\ nreq' = nreq + 1
    /\ resp' = IF id \in DOMAIN fires
               THEN Resp(nreq', "get", id, NoBody, 200, "",
                         rowToGeoJSON(fires[id]), 0)
               ELSE Resp(nreq', "get", id, NoBody, 404, "Fire not found",
                         NoData, 0)
    /\ UNCHANGED <<variant, fires, seq, clock, pending, crashed, channelVars>>

(***************************************************************************)
(* PATCH /api/fires/:id                                                    *)
(***************************************************************************)
\* a slip: the position is on the allow-list
allowedFieldsWithPosition ==
    {"latitude", "longitude",
     "fire_status", "fire_type", "fire_intensity", "fire_size", "confidence",
     "fuel_type", "terrain_type", "slope", "temperature", "humidity",
     "wind_speed", "wind_direction", "wind_type", "agency_in_charge",
     "response_level", "firefighters", "vehicles", "aircraft",
     "evacuation_status", "district", "nearest_village",
     "distance_to_village", "risk_to_settlements"}

allowedFields ==
    {"fire_status", "fire_type", "fire_intensity", "fire_size", "confidence",
     "fuel_type", "terrain_type", "slope", "temperature", "humidity",
     "wind_speed", "wind_direction", "wind_type", "agency_in_charge",
     "response_level", "firefighters", "vehicles", "aircraft",
     "evacuation_status", "district", "nearest_village",
     "distance_to_village", "risk_to_settlements"}

\* a slip: every key of the body is taken, the allow-list is not consulted
updateFieldsUnfiltered(body) == ObjectKeys(body)

\* the keys of the body that pass allowedFields.includes(key)
updateFields(body) == {key \in ObjectKeys(body) : key \in allowedFields}

\* a slip: last_update is refreshed only when a supplied value differs from
\* the stored one
UpdateRowIfChanged(row, body, now) ==
    LET changed == \E c \in Columns :
                      c \in {key \in ObjectKeys(body) : key \in allowedFields}
                      /\ Affinity(c, body[c]) # row[c]
    IN  [c \in Columns |->
            IF c \in {key \in ObjectKeys(body) : key \in allowedFields}
            THEN Affinity(c, body[c])
            ELSE IF c = "last_update" /\ changed THEN Datetime(now)
            ELSE row[c]]

\* a slip: the whole row is written back from the row as it was seeded, so
\* that what another update has set in the meantime is lost
UpdateRowFromSnapshot(row, body, now) ==
    LET seeded == {i \in 1..Len(initialFires) : initialFires[i]["id"] = row["id"]}
        old == IF seeded = {} THEN row ELSE initialFires[CHOOSE i \in seeded : TRUE]
    IN  [c \in Columns |->
            IF c \in {key \in ObjectKeys(body) : key \in allowedFields}
            THEN Affinity(c, body[c])
            ELSE IF c = "last_update" THEN Datetime(now)
            ELSE old[c]]

\* UPDATE fires SET <updateFields>, last_update = CURRENT_TIMESTAMP
UpdateRow(row, body, now) ==
    [c \in Columns |->
        IF c \in updateFields(body) THEN Affinity(c, body[c])
        ELSE IF c = "last_update" THEN Datetime(now)
        ELSE row[c]]

\* the table after the UPDATE statement: the row WHERE id = ? is rewritten,
\* no row when there is none
UpdateStatement(table, id, body, now) ==
    [i \in DOMAIN table |->
        IF i = id THEN UpdateRow(table[i], body, now) ELSE table[i]]

\* this.changes: the number of rows the statement matched
UpdateChanges(table, id) == Cardinality({i \in DOMAIN table : i = id})

\* the constraints of the schema on every row of a table
ConstraintsOk(table) ==
    \A i \in DOMAIN table : NotNullOk(table[i]) /\ CheckOk(table[i])

\* a slip: this.changes is not looked at, an UPDATE that matched no row goes
\* on to the read-back
UpdateOutcomeNoChangesCheck(id, body) ==
    IF {key \in ObjectKeys(body) : key \in allowedFields} = {} THEN 400
    ELSE IF ~ConstraintsOk(UpdateStatement(fires, id, body, clock)) THEN 500
    ELSE 0

\* a slip: the row is looked up before the fields are examined
UpdateOutcomeLookupFirst(id, body) ==
    IF UpdateChanges(fires, id) = 0 THEN 404
    ELSE IF {key \in ObjectKeys(body) : key \in allowedFields} = {} THEN 400
    ELSE IF ~ConstraintsOk(UpdateStatement(fires, id, body, clock)) THEN 500
    ELSE 0

\* the status the handler answers with; 0 when the UPDATE went through and
\* the answer is left to the read-back
UpdateOutcome(id, body) ==
    IF updateFields(body) = {} THEN 400
    ELSE IF ~ConstraintsOk(UpdateStatement(fires, id, body, clock)) THEN 500
    ELSE IF UpdateChanges(fires, id) = 0 THEN 404
    ELSE 0

UpdateError(code) ==
    CASE code = 400 -> "No valid fields to update"
      [] code = 500 -> "Database error"
      [] code = 404 -> "Fire not found"
      [] OTHER -> ""

\* the handler up to and including the UPDATE statement
Update(id, body) ==
    /\ ~crashed
    /\ nreq < MaxRequests
    /\ nreq' = nreq + 1
    /\ LET code == UpdateOutcome(id, body)
       IN  /\ resp' = Resp(nreq', "update", id, body, code, UpdateError(code),
                           NoData, 0)
           /\ fires' = IF code = 0 THEN UpdateStatement(fires, id, body, clock)
                       ELSE fires
           /\ pending' = IF code = 0
                         THEN pending \cup
                                {[req |-> nreq', op |-> "update", id |-> id]}
                         ELSE pending
    /\ UNCHANGED <<variant, seq, clock, crashed, channelVars>>

\* the callback of the UPDATE: SELECT the row and answer 200
UpdateReadBack(p) ==
    /\ ~crashed
    /\ p.op = "update"
    /\ pending' = pending \ {p}
    /\ IF p.id \in DOMAIN fires
       THEN /\ resp' = Resp(p.req, "update", p.id, NoBody, 200, "",
                            rowToGeoJSON(fires[p.id]), 0)
            /\ crashed' = crashed
       ELSE /\ resp' = Resp(p.req, "update", p.id, NoBody, 0, "TypeError",
                            NoData, 0)
            /\ crashed' = TRUE
    /\ UNCHANGED <<variant, fires, seq, clock, nreq, channelVars>>

(***************************************************************************)
(* DELETE /api/fires/:id and DELETE /api/fires                             *)
(***************************************************************************)
\* a slip: this.changes is not looked at
DeleteWithoutChangesCheck(id) ==
    /\ ~crashed
    /\ nreq < MaxRequests
    /\ nreq' = nreq + 1
    /\ resp' = Resp(nreq', "delete", id, NoBody, 200, "", NoData, 0)
    /\ fires' = [i \in DOMAIN fires \ {id} |-> fires[i]]
    /\ UNCHANGED <<variant, seq, clock, pending, crashed, channelVars>>

Delete(id) ==
    /\ ~crashed
    /\ nreq < MaxRequests
    /\ nreq' = nreq + 1
    /\ IF id \notin DOMAIN fires
       THEN /\ resp' = Resp(nreq', "delete", id, NoBody, 404, "Fire not found",
                            NoData, 0)
            /\ fires' = fires
       ELSE /\ resp' = Resp(nreq', "delete", id, NoBody, 200, "", NoData, 0)
            /\ fires' = [i \in DOMAIN fires \ {id} |-> fires[i]]
    /\ UNCHANGED <<variant, seq, clock, pending, crashed, channelVars>>

\* a slip: the count is taken of the table as the DELETE left it
DeleteAllCountAfter ==
    /\ ~crashed
    /\ variant = "server.js"
    /\ nreq < MaxRequests
    /\ nreq' = nreq + 1
    /\ fires' = [i \in {} |-> Null]
    /\ resp' = Resp(nreq', "deleteAll", 0, NoBody, 200, "", NoData,
                    Cardinality(DOMAIN fires'))
    /\ UNCHANGED <<variant, seq, clock, pending, crashed, channelVars>>

\* only src/server.js has the route
DeleteAll ==
    /\ ~crashed
    /\ variant = "server.js"
    /\ nreq < MaxRequests
    /\ nreq' = nreq + 1
    /\ resp' = Resp(nreq', "deleteAll", 0, NoBody, 200, "", NoData,
                    Cardinality(DOMAIN fires))
    /\ fires' = [i \in {} |-> Null]
    /\ UNCHANGED <<variant, seq, clock, pending, crashed, channelVars>>

(***************************************************************************)
(* The session channel service: module state, the client's events,         *)
(* initializeWhatsAppClient, setSelectedChannel, sendWhatsAppNotification. *)
(***************************************************************************)
\* the results object of a dispatch, before any channel has been tried
NoResults == [telegram |-> "undefined", whatsapp |-> "undefined", errors |-> <<>>]

\* the opts argument of sendWhatsAppNotification: an object with some of
\* phoneNumber, channelId, channelName ("" stands for an absent key), a
\* string, or nothing at all
Opts(phoneNumber, channelId, channelName) ==
    [k |-> "object", s |-> "", phoneNumber |-> phoneNumber,
     channelId |-> channelId, channelName |-> channelName]
StringOpts(s) ==
    [k |-> "string", s |-> s, phoneNumber |-> "", channelId |-> "",
     channelName |-> ""]
NoOpts ==
    [k |-> "undefined", s |-> "", phoneNumber |-> "", channelId |-> "",
     channelName |-> ""]

Outcome(op, code, success, error, results, opts) ==
    [op |-> op, code |-> code, success |-> success, error |-> error,
     results |-> results, opts |-> opts]

\* a chat or channel object of the client library; id "" stands for null
Chat(id, user, name, isReadOnly) ==
    [id |-> id, user |-> user, name |-> name, isReadOnly |-> isReadOnly]
NoChat == Chat("", "", "", FALSE)

\* what the account of the session holds: one group, a channel that can be
\* written to and one that is read-only, and the numbers on the network
AccountGroups == {Chat("evac@g.us", "evac", "Evac", FALSE)}
AccountChannels ==
    <<Chat("alerts@newsletter", "alerts", "Alerts", FALSE),
      Chat("archive@newsletter", "archive", "Archive", TRUE)>>
RegisteredNumbers == {"35799"}

\* phoneNumber.replace(/[^0-9]/g, '')
Formatted(phoneNumber) ==
    CASE phoneNumber = "+357 99" -> "35799"
      [] phoneNumber = "+1 (000)" -> "1000"
      [] OTHER -> ""

\* list.find: the first of the elements at the matching positions, or null
Find(list, matching) ==
    IF matching = {} THEN NoChat
    ELSE list[CHOOSE n \in matching : \A m \in matching : n <= m]

\* the channel setSelectedChannel picks: by id or user, by JID, then by name
ChannelByNameOrId(list, channelNameOrId) ==
    LET byId == Find(list, {n \in 1..Len(list) :
                               \/ list[n].id = channelNameOrId
                               \/ list[n].user = channelNameOrId
                               \/ list[n].user \o "@newsletter" = channelNameOrId})
        byName == Find(list, {n \in 1..Len(list) :
                                 list[n].name = channelNameOrId})
    IN  IF Len(list) = 0 THEN NoChat
        ELSE IF byId # NoChat THEN byId
        ELSE byName

\* the selection setSelectedChannel leaves: with no channel loaded it
\* returns before it assigns
SelectedAfter(list, channelNameOrId) ==
    IF Len(list) = 0 THEN selectedChannel
    ELSE ChannelByNameOrId(list, channelNameOrId)

setSelectedChannel(channelNameOrId) ==
    /\ variant = "part_001"
    /\ selectedChannel' = SelectedAfter(channels, channelNameOrId)
    /\ UNCHANGED <<env, whatsappClient, isLoggedIn, groupChat, qrCodeData,
                   channels, handlers, session, created, calls, dispatch, out,
                   nops>>
    /\ UNCHANGED <<storeVars, botRequest>>

\* a slip: a client is constructed whether or not one exists
ClientExistsNever(client) == FALSE

\* if (whatsappClient) return whatsappClient
ClientExists(client) == client # "null"

\* the synchronous part of initializeWhatsAppClient, up to the call of
\* whatsappClient.initialize(): the state it leaves
InitializedState(groupName, channelNameOrId) ==
    IF ClientExists(whatsappClient)
    THEN [whatsappClient |-> whatsappClient, created |-> created,
          handlers |-> handlers]
    ELSE [whatsappClient |-> "client", created |-> created + 1,
          handlers |-> [groupName |-> groupName,
                        channelNameOrId |-> channelNameOrId,
                        awaiting |-> FALSE]]

\* POST /api/whatsapp/initialize; client.initialize() resolves or rejects
Initialize(groupName, resolves) ==
    /\ variant = "part_001"
    /\ nops < MaxOps
    /\ nops' = nops + 1
    /\ LET arg == IF groupName # "" THEN groupName ELSE env.WHATSAPP_GROUP_NAME
           next == InitializedState(arg, "")
       IN  /\ whatsappClient' = next.whatsappClient
           /\ created' = next.created
           /\ handlers' = next.handlers
           /\ out' = IF ClientExists(whatsappClient) \/ resolves
                      THEN Outcome("initialize", 200, TRUE, "", NoResults,
                                   NoOpts)
                      ELSE Outcome("initialize", 500, FALSE,
                                   "Internal server error", NoResults, NoOpts)
    /\ UNCHANGED <<env, isLoggedIn, groupChat, qrCodeData, channels,
                   selectedChannel, session, calls, dispatch>>
    /\ UNCHANGED <<storeVars, botRequest>>

\* function getQRCode() { return qrCodeData; }
getQRCode == qrCodeData

\* whatsappClient.on('qr'), up to await qrcode.toDataURL(qr); one call of
\* the handler waits at a time
Qr ==
    /\ whatsappClient # "null"
    /\ session \in {"UNPAIRED", "PAIRING"}
    /\ ~handlers.awaiting
    /\ session' = "PAIRING"
    /\ handlers' = [handlers EXCEPT !.awaiting = TRUE]
    /\ UNCHANGED <<env, whatsappClient, isLoggedIn, groupChat, qrCodeData,
                   channels, selectedChannel, created, calls, dispatch, out,
                   nops>>
    /\ UNCHANGED <<storeVars, botRequest>>

\* qrCodeData = await qrcode.toDataURL(qr), inside try
QrAssigned(encoded) == IF encoded THEN "qr" ELSE qrCodeData

\* the qr handler resumed: qrcode.toDataURL has resolved or rejected
QrEncoded(encoded) ==
    /\ handlers.awaiting
    /\ handlers' = [handlers EXCEPT !.awaiting = FALSE]
    /\ qrCodeData' = QrAssigned(encoded)
    /\ UNCHANGED <<env, whatsappClient, isLoggedIn, groupChat, channels,
                   selectedChannel, session, created, calls, dispatch, out,
                   nops>>
    /\ UNCHANGED <<storeVars, botRequest>>

\* whatsappClient.on('authenticated')
Authenticated ==
    /\ whatsappClient # "null"
    /\ session \in {"UNPAIRED", "PAIRING"}
    /\ session' = "AUTHENTICATED"
    /\ qrCodeData' = "null"
    /\ isLoggedIn' = TRUE
    /\ UNCHANGED <<env, whatsappClient, groupChat, channels, selectedChannel,
                   handlers, created, calls, dispatch, out, nops>>
    /\ UNCHANGED <<storeVars, botRequest>>

\* whatsappClient.on('auth_failure')
AuthFailure ==
    /\ whatsappClient # "null"
    /\ session \in {"PAIRING", "AUTHENTICATED"}
    /\ session' = "UNPAIRED"
    /\ isLoggedIn' = FALSE
    /\ UNCHANGED <<env, whatsappClient, groupChat, qrCodeData, channels,
                   selectedChannel, handlers, created, calls, dispatch, out,
                   nops>>
    /\ UNCHANGED <<storeVars, botRequest>>

\* whatsappClient.getChannels() rejects, or resolves with the channels the
\* account follows at that time: both of them, or none
ChannelLoads ==
    {[resolves |-> FALSE, channels |-> <<>>],
     [resolves |-> TRUE, channels |-> AccountChannels],
     [resolves |-> TRUE, channels |-> <<>>]}

\* whatsappClient.on('ready'): bind the group the handlers closed over, load
\* the channels, select the channel asked for; getChats and getChannels
\* resolve or reject
Ready(chatsLoad, channelsLoad) ==
    /\ whatsappClient # "null"
    /\ session = "AUTHENTICATED"
    /\ session' = "READY"
    /\ isLoggedIn' = TRUE
    /\ groupChat' =
         IF handlers.groupName # "" /\ chatsLoad
         THEN IF \E g \in AccountGroups : g.name = handlers.groupName
              THEN CHOOSE g \in AccountGroups : g.name = handlers.groupName
              ELSE NoChat
         ELSE groupChat
    /\ channels' = IF channelsLoad.resolves THEN channelsLoad.channels
                   ELSE channels
    /\ selectedChannel' =
         IF channelsLoad.resolves /\ handlers.channelNameOrId # ""
         THEN SelectedAfter(channels', handlers.channelNameOrId)
         ELSE selectedChannel
    /\ UNCHANGED <<env, whatsappClient, qrCodeData, handlers, created, calls,
                   dispatch, out, nops>>
    /\ UNCHANGED <<storeVars, botRequest>>

\* a slip: the login flag survives the disconnect
DisconnectedKeepsLogin ==
    /\ whatsappClient # "null"
    /\ session \in {"AUTHENTICATED", "READY"}
    /\ session' = "UNPAIRED"
    /\ UNCHANGED <<env, whatsappClient, isLoggedIn, groupChat, qrCodeData,
                   channels, selectedChannel, handlers, created, calls,
                   dispatch, out, nops>>
    /\ UNCHANGED <<storeVars, botRequest>>

\* whatsappClient.on('disconnected')
Disconnected ==
    /\ whatsappClient # "null"
    /\ session \in {"AUTHENTICATED", "READY"}
    /\ session' = "UNPAIRED"
    /\ isLoggedIn' = FALSE
    /\ UNCHANGED <<env, whatsappClient, groupChat, qrCodeData, channels,
                   selectedChannel, handlers, created, calls, dispatch, out,
                   nops>>
    /\ UNCHANGED <<storeVars, botRequest>>

\* const { phoneNumber = null, channelId = null, channelName = null } = opts:
\* a string has none of these properties
DestructureOpts(opts) == IF opts.k = "object" THEN opts ELSE NoOpts

\* numberId._serialized of a number that is on the network
NumberId(formatted) == IF formatted = "35799" THEN "35799@c.us" ELSE ""

\* `${c.id.user}@newsletter`
Newsletter(user) == user \o "@newsletter"

Call(fn, arg) == [fn |-> fn, arg |-> arg]
Resolved(chatId, made) == [error |-> "", chatId |-> chatId, calls |-> made]
Failed(error, made) == [error |-> error, chatId |-> "", calls |-> made]

\* a slip: a channel that is named and not found gives way to the selected
\* one
ChannelTargetOrSelected(o) ==
    LET named ==
          IF o.channelId # ""
          THEN Find(channels, {n \in 1..Len(channels) :
                                  \/ channels[n].id = o.channelId
                                  \/ Newsletter(channels[n].user) = o.channelId})
          ELSE IF o.channelName # ""
          THEN Find(channels, {n \in 1..Len(channels) :
                                  channels[n].name = o.channelName})
          ELSE NoChat
    IN  IF named # NoChat THEN named ELSE selectedChannel

\* the channel a send names, or the selected one
ChannelTarget(o) ==
    IF o.channelId # ""
    THEN Find(channels, {n \in 1..Len(channels) :
                            \/ channels[n].id = o.channelId
                            \/ Newsletter(channels[n].user) = o.channelId})
    ELSE IF o.channelName # ""
    THEN Find(channels, {n \in 1..Len(channels) :
                            channels[n].name = o.channelName})
    ELSE selectedChannel

\* a slip: the bound group is preferred to the channel
ResolveChatGroupFirst(o) ==
    IF o.phoneNumber # ""
    THEN LET formatted == Formatted(o.phoneNumber)
             made == <<Call("getNumberId", formatted)>>
         IN  IF NumberId(formatted) = ""
             THEN Failed("Number is not on WhatsApp", made)
             ELSE Resolved(NumberId(formatted), made)
    ELSE IF groupChat # NoChat THEN Resolved(groupChat.id, <<>>)
    ELSE IF ChannelTarget(o) # NoChat
    THEN IF ChannelTarget(o).isReadOnly
         THEN Failed("Channel \"" \o ChannelTarget(o).name
                         \o "\" is read-only for this account", <<>>)
         ELSE Resolved(ChannelTarget(o).id, <<>>)
    ELSE Failed("No destination provided", <<>>)

\* a slip: a read-only channel gives way to the bound group
ResolveChatReadOnlyFallsBack(o) ==
    IF o.phoneNumber # ""
    THEN LET formatted == Formatted(o.phoneNumber)
             made == <<Call("getNumberId", formatted)>>
         IN  IF NumberId(formatted) = ""
             THEN Failed("Number is not on WhatsApp", made)
             ELSE Resolved(NumberId(formatted), made)
    ELSE IF ChannelTarget(o) # NoChat /\ ~ChannelTarget(o).isReadOnly
    THEN Resolved(ChannelTarget(o).id, <<>>)
    ELSE IF groupChat # NoChat THEN Resolved(groupChat.id, <<>>)
    ELSE Failed("No destination provided", <<>>)

\* the chat a send goes to: phoneNumber, else channel, else bound group
ResolveChat(o) ==
    IF o.phoneNumber # ""
    THEN LET formatted == Formatted(o.phoneNumber)
             made == <<Call("getNumberId", formatted)>>
         IN  IF NumberId(formatted) = ""
             THEN Failed("Number is not on WhatsApp", made)
             ELSE Resolved(NumberId(formatted), made)
    ELSE IF ChannelTarget(o) # NoChat
    THEN IF ChannelTarget(o).isReadOnly
         THEN Failed("Channel \"" \o ChannelTarget(o).name
                         \o "\" is read-only for this account", <<>>)
         ELSE Resolved(ChannelTarget(o).id, <<>>)
    ELSE IF groupChat # NoChat THEN Resolved(groupChat.id, <<>>)
    ELSE Failed("No destination provided", <<>>)

\* catch (err) { throw new Error(`Failed to send WhatsApp message: ...`) }
Rethrown(error, made) ==
    Failed("Failed to send WhatsApp message: " \o error, made)

\* sendWhatsAppNotification: the error it throws ("" when it returns) and
\* the calls it makes on the client; sendMessage resolves or rejects
sendWhatsAppNotification(opts, sendOk) ==
    IF whatsappClient = "null"
    THEN Failed("WhatsApp client is not initialized. Please initialize it first.",
                <<>>)
    ELSE IF ~isLoggedIn
    THEN Failed("WhatsApp client is not logged in. Please scan QR code first.",
                <<>>)
    ELSE LET to == ResolveChat(DestructureOpts(opts))
             made == to.calls \o <<Call("sendMessage", to.chatId)>>
         IN  IF to.error # "" THEN Rethrown(to.error, to.calls)
             ELSE IF sendOk THEN Resolved(to.chatId, made)
             ELSE Rethrown("send failed", made)

\* the service called on its own, with the opts of the caller's choice
SendOpts ==
    {NoOpts,
     Opts("+357 99", "", ""),
     Opts("+1 (000)", "", ""),
     Opts("+357 99", "alerts@newsletter", ""),
     Opts("", "alerts@newsletter", ""),
     Opts("", "", "Alerts"),
     Opts("", "", "Archive"),
     Opts("", "nowhere@newsletter", "Alerts"),
     StringOpts("+357 99")}

Send(opts, sendOk) ==
    /\ variant = "part_001"
    /\ nops < MaxOps
    /\ nops' = nops + 1
    /\ LET sent == sendWhatsAppNotification(opts, sendOk)
       IN  /\ calls' = calls \o sent.calls
           /\ out' = Outcome("send", 0, sent.error = "", sent.error, NoResults,
                             opts)
    /\ UNCHANGED <<env, whatsappClient, isLoggedIn, groupChat, qrCodeData,
                   channels, selectedChannel, handlers, session, created,
                   dispatch>>
    /\ UNCHANGED <<storeVars, botRequest>>

(***************************************************************************)
(* The text of a notification.  The text is kept as the sequence of its    *)
(* blocks: the message, the location block, the heading of the evacuation  *)
(* points and one entry for each point.                                    *)
(***************************************************************************)
\* an argument that is an array, null, or a string (its characters)
Array(items) == [k |-> "array", items |-> items]
NoArray == [k |-> "null", items |-> <<>>]
UndefinedArray == [k |-> "undefined", items |-> <<>>]
Characters(items) == [k |-> "string", items |-> items]

\* a default parameter value replaces undefined only
Default(v, d) == IF v.k = "undefined" THEN d ELSE v

\* const [lat, lng] = p
At(p, i) == IF i <= Len(p) THEN p[i] ELSE Undefined

\* Number.prototype.toFixed(6)
toFixed(v) ==
    LET a == IF v.n < 0 THEN 0 - v.n ELSE v.n
        f == a % 10000
    IN  (IF v.n < 0 THEN "-" ELSE "") \o ToString(a \div 10000) \o "."
        \o ToString(f \div 1000) \o ToString((f \div 100) % 10)
        \o ToString((f \div 10) % 10) \o ToString(f % 10) \o "00"

\* `https://www.google.com/maps?q=${lat},${lng}`
mapsUrl(lat, lng) ==
    "https://www.google.com/maps?q=" \o NumberText(lat) \o "," \o NumberText(lng)

\* lat.toFixed or lng.toFixed is not a function
ToFixedThrows(p) == At(p, 1).k # "number" \/ At(p, 2).k # "number"

MessageBlock(message) == [block |-> "message", text |-> message.s]
LocationBlock(label, p) ==
    [block |-> "location", text |-> label, lat |-> toFixed(At(p, 1)),
     lng |-> toFixed(At(p, 2)), url |-> mapsUrl(At(p, 1), At(p, 2))]
HeadingBlock(label) == [block |-> "heading", text |-> label]

\* a slip: the entries are numbered from 0
EntryBlockFromZero(index, p) ==
    [block |-> "entry", text |-> ToString(index) \o ".",
     lat |-> toFixed(At(p, 1)), lng |-> toFixed(At(p, 2)),
     url |-> mapsUrl(At(p, 1), At(p, 2))]

\* `${index + 1}. ${lat.toFixed(6)}, ${lng.toFixed(6)}\n   ${mapsUrl}`
EntryBlock(index, p) ==
    [block |-> "entry", text |-> ToString(index + 1) \o ".",
     lat |-> toFixed(At(p, 1)), lng |-> toFixed(At(p, 2)),
     url |-> mapsUrl(At(p, 1), At(p, 2))]

Text(error, blocks) == [error |-> error, blocks |-> blocks]

\* the text sendTelegramNotification sends, or the error it throws
TelegramText(message, evacuationPoints, location) ==
    LET points == Default(evacuationPoints, Array(<<>>))
        origin == Default(location, NoArray)
        hasPoints == points.k \in {"array", "string"} /\ Len(points.items) > 0
        hasOrigin == origin.k \in {"array", "string"} /\ Len(origin.items) = 2
        evacuationText ==
            IF hasPoints
            THEN <<HeadingBlock("Safe Evacuation Points:")>>
                 \o [n \in 1..Len(points.items) |->
                        EntryBlock(n - 1, points.items[n])]
            ELSE <<>>
        locationText ==
            IF hasOrigin THEN <<LocationBlock("Location:", origin.items)>>
            ELSE <<>>
    IN  IF \/ hasPoints /\ points.k = "string"
           \/ hasPoints /\ \E n \in 1..Len(points.items) :
                               ToFixedThrows(points.items[n])
           \/ hasOrigin /\ ToFixedThrows(origin.items)
        THEN Text("TypeError", <<>>)
        ELSE Text("", <<MessageBlock(message)>> \o locationText \o evacuationText)

\* the text sendWhatsAppNotification sends, or the error it throws
WhatsAppText(message, evacuationPoints, location) ==
    LET points == Default(evacuationPoints, Array(<<>>))
        origin == Default(location, NoArray)
        hasPoints == points.k = "array" /\ Len(points.items) > 0
        hasOrigin == origin.k = "array" /\ Len(origin.items) = 2
        evacuationText ==
            IF hasPoints
            THEN <<HeadingBlock("*Safe Evacuation Points:*")>>
                 \o [n \in 1..Len(points.items) |->
                        EntryBlock(n - 1, points.items[n])]
            ELSE <<>>
        locationText ==
            IF hasOrigin THEN <<LocationBlock("*Location:*", origin.items)>>
            ELSE <<>>
    IN  IF \/ hasPoints /\ \E n \in 1..Len(points.items) :
                               ToFixedThrows(points.items[n])
           \/ hasOrigin /\ ToFixedThrows(origin.items)
        THEN Text("TypeError", <<>>)
        ELSE Text("", <<MessageBlock(message)>> \o locationText \o evacuationText)

\* the arguments of the two senders
Messages == {Str("Fire near Troodos"), Str("Evacuate now")}
Sites == {<<Dec(34, 9), Dec(32, 8)>>, <<Num(-35), Dec(33, 437)>>}
RECURSIVE SiteLists(_)
SiteLists(n) ==
    IF n = 0 THEN {<<>>}
    ELSE SiteLists(n - 1)
         \cup {Append(l, p) : l \in {m \in SiteLists(n - 1) : Len(m) = n - 1},
                              p \in Sites}
EvacuationPointsArguments ==
    {Array(l) : l \in SiteLists(MaxPoints)}
    \cup {UndefinedArray, NoArray, Characters(<<Str("a"), Str("b")>>),
          Array(<<<<Num(34), Str("33")>>>>)}
LocationArguments ==
    {UndefinedArray, NoArray,
     Array(<<Dec(34, 6857), Dec(33, 437)>>),
     Array(<<Dec(34, 6857), Dec(33, 437), Num(120)>>),
     Array(<<Dec(34, 6857)>>),
     Array(<<>>),
     Array(<<Str("34.6857"), Num(33)>>),
     Characters(<<Str("a"), Str("b")>>)}

TextArguments(service, message, evacuationPoints, location) ==
    [service |-> service, message |-> message,
     evacuationPoints |-> evacuationPoints, location |-> location]

\* sendTelegramNotification up to the request it makes
FormatTelegram(message, evacuationPoints, location) ==
    /\ LET text == TelegramText(message, evacuationPoints, location)
       IN  out' = Outcome("text", 0, text.error = "", text.error, text.blocks,
                          TextArguments("telegram", message, evacuationPoints,
                                        location))
    /\ UNCHANGED <<env, whatsappClient, isLoggedIn, groupChat, qrCodeData,
                   channels, selectedChannel, handlers, session, created, calls,
                   dispatch, nops>>
    /\ UNCHANGED <<storeVars, botRequest>>

\* sendWhatsAppNotification up to the chat it resolves
FormatWhatsApp(message, evacuationPoints, location) ==
    /\ LET text == WhatsAppText(message, evacuationPoints, location)
       IN  out' = Outcome("text", 0, text.error = "", text.error, text.blocks,
                          TextArguments("whatsapp", message, evacuationPoints,
                                        location))
    /\ UNCHANGED <<env, whatsappClient, isLoggedIn, groupChat, qrCodeData,
                   channels, selectedChannel, handlers, session, created, calls,
                   dispatch, nops>>
    /\ UNCHANGED <<storeVars, botRequest>>

(***************************************************************************)
(* sendTelegramNotification: the request to the bot API and the promise    *)
(* the call returns.                                                       *)
(*   promise : "none" | "pending" | "resolved" | "rejected"                *)
(*   error   : the message of the rejection                                *)
(*   sent    : the https requests made so far                              *)
(*   open    : this call has made its https request                        *)
(*   ended, failed : the response has emitted 'end', the request 'error'   *)
(*   data    : the body of the response                                    *)
(***************************************************************************)
BotRequest(botToken, chatId, promise, error, sent, open, ended, failed, data) ==
    [botToken |-> botToken, chatId |-> chatId, promise |-> promise,
     error |-> error, sent |-> sent, open |-> open, ended |-> ended,
     failed |-> failed, data |-> data]
NoBotRequest == BotRequest("", "", "none", "", 0, FALSE, FALSE, FALSE, "")

\* the credential and the destination of a call, "" for a missing one
BotTokens == {"", "token"}
ChatIds == {"", "@hotSpotFireAlarm"}

\* the bodies the bot API answers with: ok with a result, ok without one,
\* not ok with and without a description, and one that is not JSON
ResponseBodies ==
    {"{\"ok\":true,\"result\":{\"message_id\":7}}",
     "{\"ok\":true}",
     "{\"ok\":false,\"description\":\"Forbidden\"}",
     "{\"ok\":false}",
     "<html>Bad Gateway</html>"}

\* a slip: response.ok is not looked at
ResponseSettlesIgnoringOk(data) ==
    CASE data = "{\"ok\":true,\"result\":{\"message_id\":7}}" ->
            [promise |-> "resolved", error |-> ""]
      [] data = "{\"ok\":true}" ->
            [promise |-> "rejected",
             error |-> "Failed to parse Telegram response: TypeError"]
      [] data = "{\"ok\":false,\"description\":\"Forbidden\"}" ->
            [promise |-> "resolved", error |-> ""]
      [] data = "{\"ok\":false}" ->
            [promise |-> "resolved", error |-> ""]
      [] OTHER ->
            [promise |-> "rejected",
             error |-> "Failed to parse Telegram response: SyntaxError"]

\* res.on('end'): JSON.parse(data), response.ok, response.result.message_id
\* inside try; what the handler settles the promise with
ResponseSettles(data) ==
    CASE data = "{\"ok\":true,\"result\":{\"message_id\":7}}" ->
            [promise |-> "resolved", error |-> ""]
      [] data = "{\"ok\":true}" ->
            [promise |-> "rejected",
             error |-> "Failed to parse Telegram response: TypeError"]
      [] data = "{\"ok\":false,\"description\":\"Forbidden\"}" ->
            [promise |-> "rejected", error |-> "Telegram API error: Forbidden"]
      [] data = "{\"ok\":false}" ->
            [promise |-> "rejected", error |-> "Telegram API error: Unknown error"]
      [] OTHER ->
            [promise |-> "rejected",
             error |-> "Failed to parse Telegram response: SyntaxError"]

\* resolve and reject of a promise: the first one settles it, a later one
\* does nothing
Settled(request, settlement) ==
    IF request.promise = "pending"
    THEN [request EXCEPT !.promise = settlement.promise,
                         !.error = settlement.error]
    ELSE request

\* a call of sendTelegramNotification, one at a time, up to the request it
\* writes
sendTelegramNotification(botToken, chatId) ==
    /\ botRequest.promise # "pending"
    /\ nops < MaxOps
    /\ nops' = nops + 1
    /\ botRequest' =
         IF botToken = "" \/ chatId = ""
         THEN BotRequest(botToken, chatId, "rejected",
                         "Telegram bot token and chat ID are required",
                         botRequest.sent, FALSE, FALSE, FALSE, "")
         ELSE BotRequest(botToken, chatId, "pending", "", botRequest.sent + 1,
                         TRUE, FALSE, FALSE, "")
    /\ UNCHANGED <<env, whatsappClient, isLoggedIn, groupChat, qrCodeData,
                   channels, selectedChannel, handlers, session, created, calls,
                   dispatch, out>>
    /\ UNCHANGED storeVars

\* res.on('end') of the request of the call
ResponseEnd(data) ==
    /\ botRequest.open
    /\ ~botRequest.ended
    /\ botRequest' = [Settled(botRequest, ResponseSettles(data)) EXCEPT
                         !.ended = TRUE, !.data = data]
    /\ UNCHANGED <<env, whatsappClient, isLoggedIn, groupChat, qrCodeData,
                   channels, selectedChannel, handlers, session, created, calls,
                   dispatch, out, nops>>
    /\ UNCHANGED storeVars

\* req.on('error') of the request of the call
RequestError ==
    /\ botRequest.open
    /\ ~botRequest.failed
    /\ botRequest' =
         [Settled(botRequest,
                  [promise |-> "rejected",
                   error |-> "Telegram request failed: socket hang up"])
          EXCEPT !.failed = TRUE]
    /\ UNCHANGED <<env, whatsappClient, isLoggedIn, groupChat, qrCodeData,
                   channels, selectedChannel, handlers, session, created, calls,
                   dispatch, out, nops>>
    /\ UNCHANGED storeVars

(***************************************************************************)
(* POST /api/notifications/send                                            *)
(***************************************************************************)
\* req.body: the message, the evacuation points and the location
Points(items) == [k |-> "array", items |-> items]
NoPoints == [k |-> "undefined", items |-> <<>>]
NotifyBody(message, evacuationPoints) ==
    [message |-> message, evacuationPoints |-> evacuationPoints,
     location |-> UndefinedArray]
NotifyBodyAt(message, evacuationPoints, location) ==
    [message |-> message, evacuationPoints |-> evacuationPoints,
     location |-> location]
NotifyBodies ==
    {NotifyBody(Str("Fire near Troodos"), Points(<<<<Dec(34, 9), Dec(32, 8)>>>>)),
     NotifyBody(Str("Fire near Troodos"), NoPoints),
     NotifyBody(Str("Fire near Troodos"), Points(<<<<Num(91), Num(33)>>>>)),
     NotifyBody(Str("Fire near Troodos"), Points(<<>>)),
     NotifyBody(Str("Fire near Troodos"), Points(<<<<Num(34)>>>>)),
     NotifyBody(Str("Fire near Troodos"), Points(<<<<Num(34), Num(181)>>>>)),
     NotifyBody(Str("Fire near Troodos"), Points(<<<<Str("34"), Num(33)>>>>)),
     NotifyBody(Str(" "), Points(<<<<Num(34), Num(33)>>>>)),
     NotifyBody(Undefined, Points(<<<<Num(34), Num(33)>>>>)),
     NotifyBodyAt(Str("Fire near Troodos"), Points(<<<<Dec(34, 9), Dec(32, 8)>>>>),
                  Array(<<Dec(34, 6857), Dec(33, 437)>>)),
     NotifyBodyAt(Str("Fire near Troodos"), Points(<<<<Dec(34, 9), Dec(32, 8)>>>>),
                  Array(<<Num(91), Num(200)>>)),
     NotifyBodyAt(Str("Fire near Troodos"), Points(<<<<Dec(34, 9), Dec(32, 8)>>>>),
                  Array(<<Str("north"), Num(33)>>))}

\* a slip: the message is not trimmed
MessageInvalidUntrimmed(message) == Falsy(message) \/ message.k # "string"

\* !message || typeof message !== 'string' || !message.trim()
MessageInvalid(message) ==
    Falsy(message) \/ message.k # "string" \/ message.s = " "

PointMalformed(point) == Len(point) # 2

PointInvalid(point) ==
    \/ point[1].k # "number" \/ point[2].k # "number"
    \/ point[1].n < Num(-90).n \/ point[1].n > Num(90).n
    \/ point[2].n < Num(-180).n \/ point[2].n > Num(180).n

\* the first evacuation point that is refused, and why
PointsError(items) ==
    IF \E n \in 1..Len(items) : PointMalformed(items[n]) \/ PointInvalid(items[n])
    THEN LET n == CHOOSE n \in 1..Len(items) :
                     /\ PointMalformed(items[n]) \/ PointInvalid(items[n])
                     /\ \A m \in 1..(n - 1) :
                            ~(PointMalformed(items[m]) \/ PointInvalid(items[m]))
         IN  IF PointMalformed(items[n])
             THEN "Each evacuation point must be an array of [lat, lng]"
             ELSE "Invalid coordinates in evacuation points"
    ELSE ""

\* the validation of the body: the error answered with 400, or ""; only
\* src/unnamed/part_001 requires an evacuation point
NotifyValidation(body) ==
    IF MessageInvalid(body.message)
    THEN "Message is required and must be a non-empty string"
    ELSE IF variant = "part_001" /\ Len(body.evacuationPoints.items) = 0
    THEN "At least one evacuation point is required"
    ELSE PointsError(body.evacuationPoints.items)

\* const results = { telegram: null, whatsapp: null, errors: [] }; the
\* results of src/server.js have no whatsapp key
InitialResults ==
    [telegram |-> "null",
     whatsapp |-> IF variant = "part_001" THEN "null" ELSE "undefined",
     errors |-> <<>>]

\* a slip: the catch block records nothing
CaughtUnrecorded(results, service, error) == results

\* catch (error) { results.errors.push({ service, error: error.message }) }
Caught(results, service, error) ==
    [results EXCEPT !.errors = Append(@, [service |-> service, error |-> error])]

Truthy(result) == result \notin {"null", "undefined"}

\* a slip: every channel must have succeeded
EveryServiceSucceeded(results) ==
    Truthy(results.telegram) /\ Truthy(results.whatsapp)

\* if (results.telegram || results.whatsapp)
AnyServiceSucceeded(results) ==
    Truthy(results.telegram) \/ Truthy(results.whatsapp)

\* the error each sender throws while it builds its text, "" for none
NoTextErrors == [telegram |-> "", whatsapp |-> ""]
TextErrors(body) ==
    [telegram |->
        TelegramText(body.message, body.evacuationPoints, body.location).error,
     whatsapp |->
        WhatsAppText(body.message, body.evacuationPoints, body.location).error]

Idle == [pc |-> "idle", results |-> NoResults, tried |-> {},
         text |-> NoTextErrors]

\* the handler up to the first channel
DispatchStart(body) ==
    /\ dispatch.pc = "idle"
    /\ nops < MaxOps
    /\ nops' = nops + 1
    /\ LET error == NotifyValidation(body)
       IN  IF error # ""
           THEN /\ out' = Outcome("notify", 400, FALSE, error, NoResults, NoOpts)
                /\ dispatch' = Idle
           ELSE /\ out' = Outcome("notify", 0, FALSE, "", NoResults, NoOpts)
                /\ dispatch' = [pc |-> "telegram", results |-> InitialResults,
                                tried |-> {}, text |-> TextErrors(body)]
    /\ UNCHANGED <<env, whatsappClient, isLoggedIn, groupChat, qrCodeData,
                   channels, selectedChannel, handlers, session, created, calls>>
    /\ UNCHANGED <<storeVars, botRequest>>

\* a slip: the session channel is skipped once a channel has failed
AfterTelegramUnlessFailed(results) ==
    IF variant = "part_001" /\ results.errors = <<>> THEN "whatsapp"
    ELSE "respond"

\* what follows the bot-API block: the session-channel block, which only
\* src/unnamed/part_001 has
AfterTelegram(results) == IF variant = "part_001" THEN "whatsapp" ELSE "respond"

\* the bot-API block: sendTelegramNotification resolves or rejects
DispatchTelegram(sendOk) ==
    /\ dispatch.pc = "telegram"
    /\ LET results ==
             IF env.TELEGRAM_BOT_TOKEN = "" THEN dispatch.results
             ELSE IF dispatch.text.telegram # ""
             THEN Caught(dispatch.results, "telegram", dispatch.text.telegram)
             ELSE IF sendOk THEN [dispatch.results EXCEPT !.telegram = "sent"]
             ELSE Caught(dispatch.results, "telegram", "Telegram request failed")
       IN  dispatch' =
             [pc |-> AfterTelegram(results), results |-> results,
              tried |-> IF env.TELEGRAM_BOT_TOKEN = "" THEN dispatch.tried
                        ELSE dispatch.tried \cup {"telegram"},
              text |-> dispatch.text]
    /\ UNCHANGED <<env, whatsappClient, isLoggedIn, groupChat, qrCodeData,
                   channels, selectedChannel, handlers, session, created, calls,
                   out, nops>>
    /\ UNCHANGED <<storeVars, botRequest>>

\* the fourth argument of the call of sendWhatsAppNotification:
\* whatsappPhoneNumber, a string or undefined
DispatchOpts ==
    IF env.WHATSAPP_PHONE_NUMBER # "" THEN StringOpts(env.WHATSAPP_PHONE_NUMBER)
    ELSE NoOpts

\* the dispatcher's call of sendWhatsAppNotification: past the two guards
\* the text is built, outside the try, before the chat is resolved
DispatchSend(sendOk) ==
    IF whatsappClient # "null" /\ isLoggedIn /\ dispatch.text.whatsapp # ""
    THEN Failed(dispatch.text.whatsapp, <<>>)
    ELSE sendWhatsAppNotification(DispatchOpts, sendOk)

\* the results after the call of sendWhatsAppNotification
AfterSend(results, sent) ==
    IF sent.error = "" THEN [results EXCEPT !.whatsapp = "sent"]
    ELSE Caught(results, "whatsapp", sent.error)

\* the session-channel block up to its first suspension: with no client one
\* is created and the handler waits for client.initialize(), which resolves
\* or rejects; with a client the send is made at once
DispatchWhatsApp(resolves, sendOk) ==
    /\ dispatch.pc = "whatsapp"
    /\ IF env.WHATSAPP_GROUP_NAME = "" /\ env.WHATSAPP_PHONE_NUMBER = ""
       THEN /\ dispatch' = [dispatch EXCEPT !.pc = "respond"]
            /\ UNCHANGED <<whatsappClient, created, handlers, calls>>
       ELSE IF whatsappClient = "null"
       THEN LET next == InitializedState(env.WHATSAPP_GROUP_NAME, "")
            IN  /\ whatsappClient' = next.whatsappClient
                /\ created' = next.created
                /\ handlers' = next.handlers
                /\ calls' = calls
                /\ dispatch' =
                     [pc |-> IF resolves THEN "whatsappSend" ELSE "respond",
                      results |-> IF resolves THEN dispatch.results
                                  ELSE Caught(dispatch.results, "whatsapp",
                                              "initialize failed"),
                      tried |-> dispatch.tried \cup {"whatsapp"},
                      text |-> dispatch.text]
       ELSE LET next == InitializedState(env.WHATSAPP_GROUP_NAME, "")
                sent == DispatchSend(sendOk)
            IN  /\ whatsappClient' = next.whatsappClient
                /\ created' = next.created
                /\ handlers' = next.handlers
                /\ calls' = calls \o sent.calls
                /\ dispatch' =
                     [pc |-> "respond",
                      results |-> AfterSend(dispatch.results, sent),
                      tried |-> dispatch.tried \cup {"whatsapp"},
                      text |-> dispatch.text]
    /\ UNCHANGED <<env, isLoggedIn, groupChat, qrCodeData, channels,
                   selectedChannel, session, out, nops>>
    /\ UNCHANGED <<storeVars, botRequest>>

\* the session-channel block after client.initialize() has resolved
DispatchWhatsAppSend(sendOk) ==
    /\ dispatch.pc = "whatsappSend"
    /\ LET sent == DispatchSend(sendOk)
       IN  /\ calls' = calls \o sent.calls
           /\ dispatch' = [dispatch EXCEPT
                             !.pc = "respond",
                             !.results = AfterSend(dispatch.results, sent)]
    /\ UNCHANGED <<env, whatsappClient, isLoggedIn, groupChat, qrCodeData,
                   channels, selectedChannel, handlers, session, created, out,
                   nops>>
    /\ UNCHANGED <<storeVars, botRequest>>

\* the answer: 200 if a service succeeded, else 500, with the results
DispatchRespond ==
    /\ dispatch.pc = "respond"
    /\ out' = IF AnyServiceSucceeded(dispatch.results)
              THEN Outcome("notify", 200, TRUE, "", dispatch.results, NoOpts)
              ELSE Outcome("notify", 500, FALSE,
                           "Failed to send notification to any service",
                           dispatch.results, NoOpts)
    /\ dispatch' = Idle
    /\ UNCHANGED <<env, whatsappClient, isLoggedIn, groupChat, qrCodeData,
                   channels, selectedChannel, handlers, session, created, calls,
                   nops>>
    /\ UNCHANGED <<storeVars, botRequest>>

\* process.env: each of the three settings present or not
Envs ==
    [TELEGRAM_BOT_TOKEN : {"", "token"},
     WHATSAPP_GROUP_NAME : {"", "Evac"},
     WHATSAPP_PHONE_NUMBER : {"", "+357 99"}]
NoEnv ==
    [TELEGRAM_BOT_TOKEN |-> "", WHATSAPP_GROUP_NAME |-> "",
     WHATSAPP_PHONE_NUMBER |-> ""]

\* the notification side as the process starts
InitChannels(e) ==
    /\ env = e
    /\ whatsappClient = "null"
    /\ isLoggedIn = FALSE
    /\ groupChat = NoChat
    /\ qrCodeData = "null"
    /\ channels = <<>>
    /\ selectedChannel = NoChat
    /\ handlers = [groupName |-> "", channelNameOrId |-> "", awaiting |-> FALSE]
    /\ session = "UNPAIRED"
    /\ created = 0
    /\ calls = <<>>
    /\ dispatch = Idle
    /\ out = Outcome("none", 0, FALSE, "", NoResults, NoOpts)
    /\ nops = 0
    /\ botRequest = NoBotRequest

(***************************************************************************)
(* The clock, and the system.                                              *)
(***************************************************************************)
Tick ==
    /\ ~crashed
    /\ clock < MaxTime
    /\ clock' = clock + 1
    /\ UNCHANGED <<variant, fires, seq, nreq, pending, resp, crashed, channelVars>>

InitStore(v) ==
    /\ variant = v
    /\ fires = [i \in 1..Len(initialFires) |-> initialFires[i]]
    /\ seq = Len(initialFires)
    /\ clock = 0
    /\ nreq = 0
    /\ pending = {}
    /\ resp = Resp(0, "none", 0, NoBody, 0, "", NoData, 0)
    /\ crashed = FALSE

\* the ids requests name: the first seeded row, and the id the first create
\* assigns (not stored before it)
RequestIds == {1, Len(initialFires) + 1}

\* src/server.js
Init == InitStore("server.js") /\ InitChannels(NoEnv)

Next ==
    \/ \E body \in CreateBodies : Create(body)
    \/ \E p \in pending : CreateReadBack(p)
    \/ \E query \in ListQueries : List(query)
    \/ \E id \in RequestIds : Get(id)
    \/ \E id \in RequestIds, body \in UpdateBodies : Update(id, body)
    \/ \E p \in pending : UpdateReadBack(p)
    \/ \E id \in RequestIds : Delete(id)
    \/ DeleteAll
    \/ Tick

Spec == Init /\ [][Next]_vars

\* the server of src/unnamed/part_001: no DELETE /api/fires route
InitPart001 == InitStore("part_001") /\ InitChannels(NoEnv)

NextPart001 ==
    \/ \E body \in CreateBodies : Create(body)
    \/ \E p \in pending : CreateReadBack(p)
    \/ \E query \in ListQueries : List(query)
    \/ \E id \in RequestIds : Get(id)
    \/ \E id \in RequestIds, body \in UpdateBodies : Update(id, body)
    \/ \E p \in pending : UpdateReadBack(p)
    \/ \E id \in RequestIds : Delete(id)
    \/ Tick

SpecPart001 == InitPart001 /\ [][NextPart001]_vars

\* the notification side of either server, with any environment
InitNotify == \E v \in Variants, e \in Envs : InitStore(v) /\ InitChannels(e)

GroupNames == {"", "Evac", "Nowhere"}
ChannelNamesOrIds == {"Alerts", "archive@newsletter", "Nowhere"}

\* the dispatcher, the initialization route and the session client
NextNotify ==
    \/ \E body \in NotifyBodies : DispatchStart(body)
    \/ \E sendOk \in BOOLEAN : DispatchTelegram(sendOk)
    \/ \E resolves, sendOk \in BOOLEAN : DispatchWhatsApp(resolves, sendOk)
    \/ \E sendOk \in BOOLEAN : DispatchWhatsAppSend(sendOk)
    \/ DispatchRespond
    \/ \E groupName \in GroupNames, resolves \in BOOLEAN :
           Initialize(groupName, resolves)
    \/ Qr
    \/ \E encoded \in BOOLEAN : QrEncoded(encoded)
    \/ Authenticated
    \/ AuthFailure
    \/ \E chatsLoad \in BOOLEAN, channelsLoad \in ChannelLoads :
           Ready(chatsLoad, channelsLoad)
    \/ Disconnected

SpecNotify == InitNotify /\ [][NextNotify]_vars

\* the session channel service of src/telegramService.js called on its own
InitSession == InitStore("part_001") /\ InitChannels(NoEnv)

NextSession ==
    \/ \E groupName \in GroupNames, resolves \in BOOLEAN :
           Initialize(groupName, resolves)
    \/ \E channelNameOrId \in ChannelNamesOrIds :
           setSelectedChannel(channelNameOrId)
    \/ \E opts \in SendOpts, sendOk \in BOOLEAN : Send(opts, sendOk)
    \/ Qr
    \/ \E encoded \in BOOLEAN : QrEncoded(encoded)
    \/ Authenticated
    \/ AuthFailure
    \/ \E chatsLoad \in BOOLEAN, channelsLoad \in ChannelLoads :
           Ready(chatsLoad, channelsLoad)
    \/ Disconnected

SpecSession == InitSession /\ [][NextSession]_vars

\* the two senders building their text
InitText == InitStore("part_001") /\ InitChannels(NoEnv)

NextText ==
    \/ \E message \in Messages, evacuationPoints \in EvacuationPointsArguments,
          location \in LocationArguments :
           FormatTelegram(message, evacuationPoints, location)
    \/ \E message \in Messages, evacuationPoints \in EvacuationPointsArguments,
          location \in LocationArguments :
           FormatWhatsApp(message, evacuationPoints, location)

SpecText == InitText /\ [][NextText]_vars

\* the bot-API sender called on its own
InitTelegram == InitStore("server.js") /\ InitChannels(NoEnv)

NextTelegram ==
    \/ \E botToken \in BotTokens, chatId \in ChatIds :
           sendTelegramNotification(botToken, chatId)
    \/ \E data \in ResponseBodies : ResponseEnd(data)
    \/ RequestError

SpecTelegram == InitTelegram /\ [][NextTelegram]_vars

(***************************************************************************)
(* Properties of the incident store.                                       *)
(*                                                                         *)
(* A step with nreq' # nreq is a request being handled up to its write;    *)
(* resp' then holds the request (op, id, body) and its outcome.            *)
(***************************************************************************)
RequestStep == nreq' # nreq

\* v is a number in [lo, hi] (whole units)
NumberWithin(v, lo, hi) ==
    v.k = "number" /\ lo * 10000 <= v.n /\ v.n <= hi * 10000

\* the key is absent, or null
Missing(v) == v.k \in {"undefined", "null"}

\* the payload names no position, or one outside the geographic bounds
PositionOutOfRange(body) ==
    \/ Missing(body["latitude"])
    \/ Missing(body["longitude"])
    \/ body["latitude"].k = "number" /\ ~NumberWithin(body["latitude"], -90, 90)
    \/ body["longitude"].k = "number"
         /\ ~NumberWithin(body["longitude"], -180, 180)

\* the payload carries a value outside the enumeration of fire_status or of
\* risk_to_settlements
EnumOutOfRange(body) ==
    \/ body["fire_status"] # Undefined
         /\ ~(body["fire_status"].k = "string"
              /\ body["fire_status"].s \in {"active", "controlled", "threat"})
    \/ body["risk_to_settlements"] # Undefined
         /\ ~(body["risk_to_settlements"].k = "string"
              /\ body["risk_to_settlements"].s \in {"low", "medium", "high"})

\* C1: in every reachable state every stored incident's fire_status is one of
\* active, controlled, threat and its risk_to_settlements one of low, medium,
\* high.  (Refuted: PATCH {"fire_status": null} passes the CHECK constraint.)
C1_StoredEnumsValid ==
    \A id \in DOMAIN fires :
        /\ fires[id]["fire_status"].k = "string"
        /\ fires[id]["fire_status"].s \in {"active", "controlled", "threat"}
        /\ fires[id]["risk_to_settlements"].k = "string"
        /\ fires[id]["risk_to_settlements"].s \in {"low", "medium", "high"}

\* C2: a create whose latitude is outside [-90,90] or whose longitude is
\* outside [-180,180], or that leaves either out, is answered 400 and leaves
\* the table, the id sequence and the pending read-backs as they were.
C2_OutOfRangeCreateRejected ==
    [][(RequestStep /\ resp'.op = "create" /\ PositionOutOfRange(resp'.body))
        => (/\ resp'.code = 400
            /\ fires' = fires
            /\ seq' = seq
            /\ pending' = pending)]_vars

\* C2 happens: a create with a latitude above 90 was answered 400
C2_Witness ==
    /\ resp.op = "create"
    /\ resp.code = 400
    /\ resp.body["latitude"].k = "number"
    /\ resp.body["latitude"].n > 90 * 10000
    /\ DOMAIN fires = 1..3

\* C3: the record a create answers with has last_update equal to
\* timestamp_detected and carries the identity, and a get by that identity
\* with no write in between yields the same record.  (Refuted: the
\* rowToGeoJSON of part_001 leaves the id out of the record.)
C3_CreateReturnsStoredRecord ==
    (resp.op = "create" /\ resp.code = 201) =>
        LET props == resp.data.properties
        IN  /\ props.last_update = props.timestamp_detected
            /\ "id" \in DOMAIN props
            /\ \E id \in DOMAIN fires :
                  /\ Num(id) = props.id
                  /\ rowToGeoJSON(fires[id]) = resp.data

\* C4: a create whose latitude is a number in [-90,90] and whose longitude is
\* a number in [-180,180], with fire_status and risk_to_settlements valid or
\* left out, is not answered 400 and adds exactly one row.  (Refuted: a
\* latitude or longitude of 0 is answered 400.)
C4_InRangeCreateAccepted ==
    [][(/\ RequestStep
        /\ resp'.op = "create"
        /\ NumberWithin(resp'.body["latitude"], -90, 90)
        /\ NumberWithin(resp'.body["longitude"], -180, 180)
        /\ ~EnumOutOfRange(resp'.body))
        => (/\ resp'.code # 400
            /\ Cardinality(DOMAIN fires') = Cardinality(DOMAIN fires) + 1)]_vars

\* C5: a create, or an update of a stored incident, that carries a
\* fire_status or risk_to_settlements outside its enumeration is answered 400
\* and changes nothing in the table.  (Refuted: the update handler does not
\* validate; the CHECK constraint answers 500, and lets null through.)
C5_OutOfEnumWriteRejected ==
    [][(/\ RequestStep
        /\ resp'.op \in {"create", "update"}
        /\ resp'.op = "update" => resp'.id \in DOMAIN fires
        /\ EnumOutOfRange(resp'.body))
        => (resp'.code = 400 /\ fires' = fires)]_vars

\* C6: an update applies exactly the supplied keys that are on the allow-list
\* (and refreshes last_update), whatever other keys the body carries; with no
\* supplied key on the allow-list it is answered 400 'No valid fields to
\* update' and the table is unchanged.
C6_UpdateAppliesAllowListOnly ==
    [][(RequestStep /\ resp'.op = "update") =>
        LET body == resp'.body
            id == resp'.id
            supplied == {k \in BodyKeys : body[k] # Undefined} \cap allowedFields
        IN  IF supplied = {}
            THEN /\ resp'.code = 400
                 /\ resp'.error = "No valid fields to update"
                 /\ fires' = fires
            ELSE /\ resp'.code # 400
                 /\ DOMAIN fires' = DOMAIN fires
                 /\ \A i \in DOMAIN fires : i # id => fires'[i] = fires[i]
                 /\ resp'.code = 0 =>
                      \A c \in Columns :
                         fires'[id][c] =
                            IF c \in supplied THEN Affinity(c, body[c])
                            ELSE IF c = "last_update" THEN Datetime(clock)
                            ELSE fires[id][c]]_vars

\* C6 happens: an update carrying allow-listed and other keys went through
C6_Witness ==
    /\ resp.op = "update"
    /\ resp.code = 0
    /\ resp.body["firefighters"] = Num(50)
    /\ resp.body["latitude"] = Num(10)
    /\ fires[resp.id]["firefighters"] = Num(50)
    /\ fires[resp.id]["latitude"] # Num(10)

\* C7: no step changes the id, the latitude, the longitude or the
\* timestamp_detected of an incident that stays stored, whatever keys an
\* update carries.
C7_IdentityPositionDetectionFixed ==
    [][\A id \in DOMAIN fires \cap DOMAIN fires' :
          /\ fires'[id]["id"] = fires[id]["id"]
          /\ fires'[id]["latitude"] = fires[id]["latitude"]
          /\ fires'[id]["longitude"] = fires[id]["longitude"]
          /\ fires'[id]["timestamp_detected"] = fires[id]["timestamp_detected"]]_vars

\* C7 happens: an update whose body carries id, latitude, longitude and
\* timestamp_detected went through, one second after the seeding
C7_Witness ==
    /\ resp.op = "update"
    /\ resp.code = 0
    /\ resp.body["id"] # Undefined
    /\ resp.body["latitude"] # Undefined
    /\ resp.body["longitude"] # Undefined
    /\ resp.body["timestamp_detected"] # Undefined
    /\ resp.id \in DOMAIN fires
    /\ fires[resp.id]["last_update"] = Datetime(1)

\* C8 as stated: every update of a stored incident that carries at least one
\* allow-listed key sets last_update to the current time, not before the
\* previous last_update.  (Refuted: an update the CHECK constraint rejects
\* leaves last_update as it was.)
C8_EveryUpdateRefreshesLastUpdate ==
    [][(/\ RequestStep
        /\ resp'.op = "update"
        /\ resp'.id \in DOMAIN fires
        /\ updateFields(resp'.body) # {})
        => (/\ resp'.id \in DOMAIN fires'
            /\ fires'[resp'.id]["last_update"] = Datetime(clock)
            /\ fires'[resp'.id]["last_update"].n >= fires[resp'.id]["last_update"].n)]_vars

\* C8 amended: every update of a stored incident that carries at least one
\* allow-listed key and that the database does not reject (no answer 500)
\* sets last_update to the current time, not before the previous last_update,
\* whether or not the supplied values differ from the stored ones.
C8_AcceptedUpdateRefreshesLastUpdate ==
    [][(/\ RequestStep
        /\ resp'.op = "update"
        /\ resp'.id \in DOMAIN fires
        /\ updateFields(resp'.body) # {}
        /\ resp'.code # 500)
        => (/\ resp'.id \in DOMAIN fires'
            /\ fires'[resp'.id]["last_update"] = Datetime(clock)
            /\ fires'[resp'.id]["last_update"].n >= fires[resp'.id]["last_update"].n)]_vars

\* C8 happens: an update of row 1 to the fire_status it already had went
\* through one second after the seeding and moved last_update
C8_Witness ==
    /\ resp.op = "update"
    /\ resp.code = 0
    /\ resp.id = 1
    /\ resp.body = Body([fire_status |-> Str("active")])
    /\ nreq = 1
    /\ fires[1]["last_update"] = Datetime(1)
    /\ fires[1]["timestamp_detected"] = Datetime(0)

\* C9: in every reachable state every stored incident has
\* last_update >= timestamp_detected.
C9_LastUpdateNotBeforeDetected ==
    \A id \in DOMAIN fires :
        /\ fires[id]["last_update"].k = "datetime"
        /\ fires[id]["timestamp_detected"].k = "datetime"
        /\ fires[id]["last_update"].n >= fires[id]["timestamp_detected"].n

\* C9 happens: a row created after the seeding was updated later still
C9_Witness ==
    \E id \in DOMAIN fires :
        /\ id > 3
        /\ fires[id]["last_update"].n > fires[id]["timestamp_detected"].n

\* C10: an update that carries at least one allow-listed key and names an id
\* that is not stored is answered 404 and leaves the table, the id sequence
\* and the pending read-backs as they were.
C10_UpdateOfMissingIsNotFound ==
    [][(/\ RequestStep
        /\ resp'.op = "update"
        /\ resp'.id \notin DOMAIN fires
        /\ ({k \in BodyKeys : resp'.body[k] # Undefined} \cap allowedFields) # {})
        => (/\ resp'.code = 404
            /\ fires' = fires
            /\ seq' = seq
            /\ pending' = pending)]_vars

\* C10 happens: an update with an allow-listed key of an id that was deleted
\* was answered 404
C10_Witness ==
    /\ resp.op = "update"
    /\ resp.code = 404
    /\ resp.id = 1
    /\ 1 \notin DOMAIN fires
    /\ resp.body["fire_status"] = Str("controlled")

\* C11: a delete of an id that is not stored is answered 404 and leaves the
\* store as it was; a delete of a stored id removes that row and no other and
\* leaves every other row as it was; from then on the id stays out of the
\* table, and every get of an id that is not stored is answered 404
C11_DeleteRemovesExactlyThatRecord ==
    [][/\ (RequestStep /\ resp'.op = "delete") =>
              IF resp'.id \in DOMAIN fires
              THEN /\ resp'.code = 200
                   /\ DOMAIN fires' = DOMAIN fires \ {resp'.id}
                   /\ \A i \in DOMAIN fires' : fires'[i] = fires[i]
              ELSE /\ resp'.code = 404
                   /\ fires' = fires
       /\ (RequestStep /\ resp'.op = "get" /\ resp'.id \notin DOMAIN fires) =>
              /\ resp'.code = 404
              /\ resp'.data = NoData
       /\ \A id \in 1..seq : id \notin DOMAIN fires => id \notin DOMAIN fires'
      ]_vars

\* C11 happens: a get of an id that was assigned and has been deleted was
\* answered 404
C11_Witness ==
    /\ resp.op = "get"
    /\ resp.id \in 1..seq
    /\ resp.id \notin DOMAIN fires
    /\ resp.code = 404

\* C12: no two stored incidents share an id, and a create assigns an id that
\* no row, stored or deleted, has held before (seq is the largest id ever
\* assigned and never decreases)
C12_IdentityUniqueNeverReused ==
    [][/\ \A i, j \in DOMAIN fires' :
              fires'[i]["id"] = fires'[j]["id"] => i = j
       /\ \A i \in DOMAIN fires' : fires'[i]["id"] = Num(i) /\ i <= seq'
       /\ \A i \in DOMAIN fires' \ DOMAIN fires : i > seq
       /\ seq' >= seq
      ]_vars

\* C12 happens: a create was served after every row had been deleted, and
\* its row is the only one stored
C12_Witness ==
    /\ resp.op = "create"
    /\ resp.req = MaxRequests
    /\ DOMAIN fires = {resp.id}

\* C13: deleteAll succeeds, leaves no row stored and reports the number of
\* rows that were stored before it (0 on an empty table); a list of the
\* empty table is answered with no feature
C13_DeleteAllRemovesAndCounts ==
    [][/\ (RequestStep /\ resp'.op = "deleteAll") =>
              /\ resp'.code = 200
              /\ DOMAIN fires' = {}
              /\ resp'.count = Cardinality(DOMAIN fires)
       /\ (RequestStep /\ resp'.op = "list" /\ DOMAIN fires = {}) =>
              /\ resp'.code = 200
              /\ resp'.data.features = <<>>
      ]_vars

\* C13 happens: a list without a filter, served after a deleteAll, was
\* answered with no feature
C13_Witness ==
    /\ resp.op = "list"
    /\ resp.body = NoBody
    /\ resp.req = MaxRequests
    /\ DOMAIN fires = {}
    /\ resp.data.features = <<>>

\* C14: a list with a status filter is answered 200 with exactly the stored
\* incidents whose fire_status is the filter, a list without a filter with
\* every stored incident, each as it is stored, ordered by timestamp_detected
\* descending; the store is left as it was
C14_ListFiltersAndOrders ==
    [][(RequestStep /\ resp'.op = "list") =>
           LET s == IF ~Missing(resp'.body["fire_status"])
                    THEN resp'.body["fire_status"]
                    ELSE resp'.body["status"]
               matching == IF Missing(s) THEN DOMAIN fires
                           ELSE {i \in DOMAIN fires :
                                    fires[i]["fire_status"] = s}
               features == resp'.data.features
           IN  /\ resp'.code = 200
               /\ fires' = fires
               /\ Len(features) = Cardinality(matching)
               /\ {features[n].properties.id : n \in 1..Len(features)}
                      = {Num(i) : i \in matching}
               /\ \A n \in 1..Len(features) :
                      \E i \in matching : features[n] = rowToGeoJSON(fires[i])
               /\ \A m, n \in 1..Len(features) :
                      m < n => features[m].properties.timestamp_detected.n
                                   >= features[n].properties.timestamp_detected.n
      ]_vars

\* C14 happens: incident 1, seeded active, is in the answer to a list
\* filtered by controlled
C14_Witness ==
    /\ resp.op = "list"
    /\ resp.body["fire_status"] = Str("controlled")
    /\ \E n \in 1..Len(resp.data.features) :
           resp.data.features[n].properties.id = Num(1)

(***************************************************************************)
(* Properties of the notification side.                                    *)
(***************************************************************************)
\* the channels the environment configures
Configured ==
    {s \in {"telegram"} : env.TELEGRAM_BOT_TOKEN # ""}
        \cup {s \in {"whatsapp"} :
                 /\ variant = "part_001"
                 /\ env.WHATSAPP_GROUP_NAME # "" \/ env.WHATSAPP_PHONE_NUMBER # ""}

\* the services a results object has a failure record for, and their number
FailureRecords(results, s) ==
    {n \in 1..Len(results.errors) : results.errors[n].service = s}

\* the services a results object carries a result for
Succeeded(results) ==
    {s \in {"telegram", "whatsapp"} : results[s] \notin {"null", "undefined"}}

\* out is the answer to a dispatch that passed validation
Dispatched == out.op = "notify" /\ out.code \in {200, 500}

\* C15: a dispatch is answered as a success exactly when the result of at
\* least one channel is present; when every configured channel has failed,
\* or none is configured, it is answered as a failure; either way the answer
\* carries the per-channel results and the failure list
C15_SuccessIffSomeChannelSucceeded ==
    Dispatched =>
        /\ out.success = (Succeeded(out.results) # {})
        /\ out.code = IF out.success THEN 200 ELSE 500
        /\ (\A s \in Configured : FailureRecords(out.results, s) # {})
               => ~out.success
        /\ out.results.telegram # "undefined"
        /\ \A s \in Configured :
               s \in Succeeded(out.results)
                   \/ FailureRecords(out.results, s) # {}

\* C15 happens: of two configured channels the bot-API send succeeded and
\* the session-channel send failed, and the dispatch was answered 200
C15_Witness ==
    /\ Dispatched
    /\ out.code = 200
    /\ out.results.telegram = "sent"
    /\ out.results.whatsapp = "null"
    /\ FailureRecords(out.results, "whatsapp") # {}

\* C16: every dispatch that passed validation is answered with results in
\* which each channel is in exactly one situation: not configured (result
\* null, no failure record), succeeded (result present, no failure record)
\* or failed (result null, exactly one failure record); and no failure
\* record of the session channel precedes one of the bot-API channel
C16_FailuresContainedPerChannel ==
    Dispatched =>
        /\ \A s \in {"telegram", "whatsapp"} \ Configured :
               /\ out.results[s] \in {"null", "undefined"}
               /\ FailureRecords(out.results, s) = {}
        /\ \A s \in Configured :
               \/ /\ s \in Succeeded(out.results)
                  /\ FailureRecords(out.results, s) = {}
               \/ /\ out.results[s] = "null"
                  /\ Cardinality(FailureRecords(out.results, s)) = 1
        /\ \A m \in FailureRecords(out.results, "whatsapp"),
              n \in FailureRecords(out.results, "telegram") : n < m

\* C16 happens: both channels were configured and both failed
C16_Witness ==
    /\ Dispatched
    /\ out.code = 500
    /\ Len(out.results.errors) = 2
    /\ out.results.errors[1].service = "telegram"
    /\ out.results.errors[2].service = "whatsapp"

\* C17: when the dispatcher comes to answer, every configured channel has
\* been tried, whatever the other channel's outcome was; and a result the
\* bot-API channel has recorded stays recorded until it is answered
C17_ChannelsIndependent ==
    [][/\ dispatch'.pc = "respond" => Configured \subseteq dispatch'.tried
       /\ (dispatch.pc # "idle" /\ dispatch.results.telegram = "sent") =>
              IF dispatch'.pc = "idle" THEN out'.results.telegram = "sent"
              ELSE dispatch'.results.telegram = "sent"
      ]_vars

\* C17 happens: the bot-API send failed and the session-channel send was
\* then made and succeeded
C17_Witness ==
    /\ dispatch.pc = "respond"
    /\ FailureRecords(dispatch.results, "telegram") # {}
    /\ dispatch.results.whatsapp = "sent"
    /\ dispatch.tried = {"telegram", "whatsapp"}

\* a step that starts a send on the session channel service
SendStep == nops' # nops /\ out'.op = "send"

\* the chats the calls of a step sent a message to
SentTo == {calls'[n].arg : n \in {m \in (Len(calls) + 1)..Len(calls') :
                                    calls'[m].fn = "sendMessage"}}

\* C18: a call is made on the session client only in the READY state, and a
\* send started in any other state fails without one
C18_SendOnlyWhenReady ==
    [][/\ calls' # calls => session = "READY"
       /\ (SendStep /\ session # "READY") =>
              ~out'.success /\ calls' = calls
      ]_vars

\* C19: at most one session client is ever constructed, and an
\* initialization request that finds a client is answered as a success and
\* changes no state of the session channel
C19_InitializationIdempotent ==
    [][/\ created' <= 1
       /\ (nops' # nops /\ out'.op = "initialize" /\ whatsappClient # "null") =>
              /\ out'.success
              /\ UNCHANGED <<whatsappClient, isLoggedIn, qrCodeData, groupChat,
                             channels, selectedChannel, handlers, session,
                             created, calls>>
      ]_vars

\* C19 happens: while a dispatch waits for the client it has constructed to
\* initialize, an initialization request was served
C19_Witness ==
    /\ dispatch.pc = "whatsappSend"
    /\ out.op = "initialize"
    /\ out.success
    /\ created = 1
    /\ handlers.groupName = "Evac"

\* C20: a send that gets as far as resolving its destination sends to the
\* chat of phoneNumber when one is given; else to the channel identified by
\* channelId when one is given, else named channelName when one is given,
\* else selected; else, when no such channel is found, to the bound group;
\* and to no chat other than that one.  When nothing resolves, or
\* the number is not on the network, the send fails and no message is sent
C20_DestinationByPriority ==
    [][(SendStep /\ whatsappClient # "null" /\ isLoggedIn) =>
           LET o == out'.opts
               given == o.k = "object"
               listed == {channels[n] : n \in 1..Len(channels)}
               channel ==
                   IF given /\ o.channelId # ""
                   THEN {c \in listed : o.channelId \in {c.id, c.user \o "@newsletter"}}
                   ELSE IF given /\ o.channelName # ""
                   THEN {c \in listed : c.name = o.channelName}
                   ELSE {selectedChannel} \ {NoChat}
               destination ==
                   IF given /\ o.phoneNumber # ""
                   THEN {NumberId(Formatted(o.phoneNumber))} \ {""}
                   ELSE IF channel # {} THEN {c.id : c \in channel}
                   ELSE {groupChat.id} \ {""}
               writable ==
                   destination \ {c.id : c \in {d \in channel : d.isReadOnly}}
           IN  /\ SentTo \subseteq destination
               /\ SentTo = writable
               /\ out'.success => SentTo # {}
               /\ destination = {} => ~out'.success
      ]_vars

\* C20 happens: with a group bound, a send naming a channel by id went to
\* the channel
C20_Witness ==
    /\ out.op = "send"
    /\ out.success
    /\ out.opts.phoneNumber = ""
    /\ out.opts.channelId = "alerts@newsletter"
    /\ groupChat # NoChat
    /\ calls # <<>>
    /\ calls[Len(calls)] = Call("sendMessage", "alerts@newsletter")

\* C21: a send that names no phone number and whose channel, named by id,
\* else by name, else selected, is a read-only channel fails, makes no call on the client, so that no message
\* goes to any chat, and does not fall back to the bound group
C21_ReadOnlyChannelRefused ==
    [][(/\ SendStep
        /\ whatsappClient # "null"
        /\ isLoggedIn
        /\ out'.opts.k = "object"
        /\ out'.opts.phoneNumber = ""
        /\ \E n \in 1..Len(channels) :
              /\ channels[n].isReadOnly
              /\ IF out'.opts.channelId # ""
                 THEN out'.opts.channelId
                          \in {channels[n].id, channels[n].user \o "@newsletter"}
                 ELSE IF out'.opts.channelName # ""
                 THEN out'.opts.channelName = channels[n].name
                 ELSE selectedChannel = channels[n]) =>
           /\ ~out'.success
           /\ calls' = calls
      ]_vars

\* C21 happens: with a group bound and the channels loaded, a send naming
\* the read-only channel was refused
C21_Witness ==
    /\ out.op = "send"
    /\ out.opts.channelName = "Archive"
    /\ ~out.success
    /\ out.error = "Failed to send WhatsApp message: Channel \"Archive\" is read-only for this account"
    /\ groupChat # NoChat
    /\ isLoggedIn
    /\ calls = <<>>

\* C22: a dispatch whose message is not a non-blank string, or whose list of
\* evacuation points has an entry that is not a pair of numbers within the
\* geographic bounds, or, in the variant with both channels, whose list is
\* missing or empty, is answered 400 before any channel is tried: nothing is
\* sent and no call is made on the client.  Any other dispatch, one with no
\* evacuation point in the variant with the bot API only included, goes on
\* to the channels
C22_InvalidDispatchRefusedEarly ==
    [][\A body \in NotifyBodies :
         (nops' # nops /\ out'.op = "notify" /\ DispatchStart(body)) =>
           LET items == body.evacuationPoints.items
               blank == body.message.k # "string" \/ body.message.s \in {"", " "}
               entryBad ==
                   \E n \in 1..Len(items) :
                       \/ Len(items[n]) # 2
                       \/ ~NumberWithin(items[n][1], -90, 90)
                       \/ ~NumberWithin(items[n][2], -180, 180)
               nonePoint == variant = "part_001" /\ Len(items) = 0
           IN  IF blank \/ entryBad \/ nonePoint
               THEN /\ out'.op = "notify"
                    /\ out'.code = 400
                    /\ ~out'.success
                    /\ out'.results = NoResults
                    /\ dispatch'.pc = "idle"
                    /\ dispatch'.tried = {}
                    /\ calls' = calls
               ELSE /\ out'.code # 400
                    /\ dispatch'.pc = "telegram"
      ]_vars

\* C22 happens: a dispatch was refused for an evacuation point out of
\* range, with a client in existence and no channel tried
C22_Witness ==
    /\ out.op = "notify"
    /\ out.code = 400
    /\ out.error = "Invalid coordinates in evacuation points"
    /\ dispatch = Idle
    /\ whatsappClient # "null"
    /\ isLoggedIn

\* C23: the text a channel sends is the message, then a location block if
\* and only if the location given is a single pair [lat, lng], then the
\* evacuation block if and only if at least one evacuation point was given,
\* whose entries are the points given, in the order given, numbered 1..n
C23_TextIsMessageLocationPoints ==
    (out.op = "text" /\ out.success) =>
        LET given == out.opts
            text == out.results
            points == IF given.evacuationPoints.k = "array"
                      THEN given.evacuationPoints.items ELSE <<>>
            single == given.location.k = "array" /\ Len(given.location.items) = 2
            first == IF single THEN 2 ELSE 1
            places(n) == {m \in 1..Len(text) : text[m].block = n}
        IN  /\ places("message") = {1}
            /\ text[1].text = given.message.s
            /\ places("location") = IF single THEN {2} ELSE {}
            /\ single =>
                   /\ text[2].lat = toFixed(given.location.items[1])
                   /\ text[2].lng = toFixed(given.location.items[2])
            /\ places("heading") = IF points # <<>> THEN {first + 1} ELSE {}
            /\ places("entry") = {first + 1 + n : n \in 1..Len(points)}
            /\ \A n \in 1..Len(points) :
                   /\ text[first + 1 + n].text = ToString(n) \o "."
                   /\ text[first + 1 + n].lat = toFixed(points[n][1])
                   /\ text[first + 1 + n].lng = toFixed(points[n][2])

\* C23 happens: a text was built of a message, a location and two different
\* evacuation points
C23_Witness ==
    /\ out.op = "text"
    /\ out.success
    /\ Len(out.results) = 5
    /\ out.results[2].lat = "34.685700"
    /\ out.results[4].lat # out.results[5].lat
    /\ out.results[5].text = "2."

\* C24: the properties of a feature answered by get, create or update carry
\* every column of the stored row other than latitude and longitude:
\* firefighters, vehicles and aircraft under resources_on_site and nowhere
\* else, every other column, the reporter's among them, under its own
\* name.  (Refuted: rowToGeoJSON leaves reporter_name and reporter_contact
\* out, and the one of part_001 the id as well.)
C24_PropertiesCarryEveryAttribute ==
    (resp.op \in {"get", "create", "update"} /\ resp.code \in {200, 201}) =>
        LET props == resp.data.properties
            nested == {"firefighters", "vehicles", "aircraft"}
            flat == Columns \ ({"latitude", "longitude"} \cup nested)
        IN  /\ flat \subseteq DOMAIN props
            /\ nested \cap DOMAIN props = {}
            /\ DOMAIN props.resources_on_site = nested
            /\ \A id \in DOMAIN fires :
                   (props.id = Num(id)
                    /\ props.last_update = fires[id]["last_update"]) =>
                       /\ \A c \in flat : props[c] = fires[id][c]
                       /\ \A c \in nested :
                              props.resources_on_site[c] = fires[id][c]

\* C25: whenever the login flag is set, the query of the pairing code
\* yields null.  (Refuted: a call of the qr handler that is still waiting
\* for the encoded code when the client authenticates stores the code
\* afterwards.)
C25_NoPairingCodeWhileLoggedIn ==
    isLoggedIn => getQRCode = "null"

\* C26: an update of a stored incident whose body carries the key status
\* with a status the README documents is not refused, and the incident has
\* that status afterwards.  (Refuted: status is not an allowed field, so a
\* body with no other allowed key is answered 400 and nothing changes.)
C26_DocumentedStatusKeyUpdates ==
    [][(/\ RequestStep
        /\ resp'.op = "update"
        /\ resp'.id \in DOMAIN fires
        /\ resp'.body["status"].k = "string"
        /\ resp'.body["status"].s \in {"active", "contained", "extinguished"}) =>
           /\ resp'.code \notin {400, 404, 500}
           /\ resp'.id \in DOMAIN fires'
           /\ fires'[resp'.id]["fire_status"] = resp'.body["status"]
      ]_vars

\* C27: the geometry of every feature answered, by get, create, update or
\* list, is a Point whose coordinates are the stored longitude, then the
\* stored latitude, of the row the feature is of, as they are stored
C27_GeometryIsLongitudeLatitude ==
    /\ (resp.op \in {"get", "create", "update"} /\ resp.code \in {200, 201}) =>
           /\ resp.data.type = "Feature"
           /\ resp.data.geometry.type = "Point"
           /\ resp.id \in DOMAIN fires
           /\ resp.data.geometry.coordinates =
                  <<fires[resp.id]["longitude"], fires[resp.id]["latitude"]>>
    /\ (resp.op = "list" /\ resp.code = 200) =>
           \A n \in 1..Len(resp.data.features) :
               LET feature == resp.data.features[n]
               IN  /\ feature.geometry.type = "Point"
                   /\ \E id \in DOMAIN fires :
                          /\ feature.properties.id = Num(id)
                          /\ feature.geometry.coordinates =
                                 <<fires[id]["longitude"], fires[id]["latitude"]>>

\* C27 happens: the incident created at latitude 90, longitude -180 was
\* answered with the coordinates [-180, 90]
C27_Witness ==
    /\ resp.op = "create"
    /\ resp.code = 201
    /\ fires[resp.id]["latitude"] = Num(90)
    /\ resp.data.geometry.coordinates = <<Num(-180), Num(90)>>

\* C28: whatever is served between the write of a create or an update and
\* its read-back, the read-back finds the row and the request is answered:
\* no exception escapes the handler.  (Refuted: a delete served in between
\* removes the row, and rowToGeoJSON(undefined) throws in the callback.)
C28_ReadBackFindsRowAndAnswers ==
    /\ ~crashed
    /\ resp.op \in {"create", "update"} => resp.error # "TypeError"

\* the session client exists and the channel has fallen back to UNPAIRED:
\* the latest initialization failed, or a pairing code, a bound group or
\* loaded channels are left over from before an authentication failure or
\* a disconnect
FallenBack ==
    /\ whatsappClient # "null"
    /\ session = "UNPAIRED"
    /\ ~isLoggedIn
    /\ \/ out.op = "initialize" /\ ~out.success
       \/ qrCodeData # "null"
       \/ groupChat # NoChat
       \/ channels # <<>>

\* C29: an initialization request served after the channel has fallen back
\* to UNPAIRED starts a new attempt: a session client is constructed.
\* (Refuted: initializeWhatsAppClient returns the client it finds, whatever
\* has become of it.)
C29_ReinitializationStartsNewAttempt ==
    [][(nops' # nops /\ out'.op = "initialize" /\ FallenBack) =>
           created' = created + 1
      ]_vars

\* C30: with WHATSAPP_PHONE_NUMBER configured, the session-channel block of
\* a dispatch sends to the chat of that number and to no other chat, and
\* records a result only when it has sent there.  (Refuted: the dispatcher
\* passes the number as a bare string where the service destructures an
\* object, so the number is never looked at.)
C30_DispatchAddressesConfiguredContact ==
    [][(/\ dispatch.pc \in {"whatsapp", "whatsappSend"}
        /\ dispatch'.pc = "respond"
        /\ env.WHATSAPP_PHONE_NUMBER # "") =>
           LET contact == NumberId(Formatted(env.WHATSAPP_PHONE_NUMBER))
           IN  /\ SentTo \subseteq {contact}
               /\ dispatch'.results.whatsapp = "sent" => SentTo = {contact}
      ]_vars

\* C31: a dispatch whose location is given and is not a pair of numbers
\* within the geographic bounds is answered 400 and no channel is tried.
\* (Refuted: the location is not validated; one out of range is sent as it
\* is, and one that is not a pair of numbers makes each sender throw, which
\* is answered 500.)
C31_BadLocationRefused ==
    [][\A body \in NotifyBodies :
         (/\ nops' # nops
          /\ out'.op = "notify"
          /\ DispatchStart(body)
          /\ body.location.k = "array"
          /\ \/ Len(body.location.items) # 2
             \/ ~NumberWithin(At(body.location.items, 1), -90, 90)
             \/ ~NumberWithin(At(body.location.items, 2), -180, 180)) =>
           /\ out'.code = 400
           /\ dispatch'.pc = "idle"
           /\ calls' = calls
      ]_vars

\* C32: when an update of an incident goes through while an earlier update
\* of the same incident still waits for its read-back, the stored record is
\* the result of the two in the order of their statements: each allow-listed
\* field carries the value of the later update if that one supplies it,
\* else the value of the earlier one if that one supplies it, else the value
\* it had
C32_ConcurrentUpdatesSerialize ==
    [][(/\ RequestStep
        /\ resp'.op = "update"
        /\ resp'.code = 0
        /\ resp.op = "update"
        /\ resp.code = 0
        /\ resp.id = resp'.id
        /\ [req |-> resp.req, op |-> "update", id |-> resp.id] \in pending) =>
           LET id == resp'.id
               earlier == {k \in allowedFields : resp.body[k] # Undefined}
               later == {k \in allowedFields : resp'.body[k] # Undefined}
           IN  /\ id \in DOMAIN fires'
               /\ \A c \in Columns \ {"last_update"} :
                      fires'[id][c] =
                         IF c \in later THEN Affinity(c, resp'.body[c])
                         ELSE IF c \in earlier THEN Affinity(c, resp.body[c])
                         ELSE fires[id][c]
      ]_vars

\* C32 happens: two updates of incident 1 both wait for their read-back, one
\* has set fire_status alone and the other firefighters and
\* risk_to_settlements, and the record carries the values of both
C32_Witness ==
    /\ Cardinality({p \in pending : p.op = "update" /\ p.id = 1}) = 2
    /\ 1 \in DOMAIN fires
    /\ fires[1]["fire_status"] = Str("controlled")
    /\ fires[1]["firefighters"] = Num(50)
    /\ fires[1]["risk_to_settlements"] = Str("low")

\* C33: the selected channel is null or one of the channels loaded, and from
\* every state setSelectedChannel returns the selection that
\* getSelectedChannel reports afterwards.  (Refuted: a ready event that
\* loads other channels leaves the selection as it was, and with no channel
\* loaded setSelectedChannel returns null without clearing the selection.)
C33_SelectionAmongLoadedChannels ==
    /\ \/ selectedChannel = NoChat
       \/ \E n \in 1..Len(channels) : channels[n] = selectedChannel
    /\ \A channelNameOrId \in ChannelNamesOrIds :
           ChannelByNameOrId(channels, channelNameOrId)
               = SelectedAfter(channels, channelNameOrId)

\* C34: in a dispatch with both channels configured the session-channel block
\* does not wait for the bot-API send: while the bot-API send is under way
\* the session-channel block has been started.  (Refuted: the handler awaits
\* the bot-API send before it enters the session-channel block.)
C34_SessionSendStartsWithoutWaiting ==
    (dispatch.pc = "telegram" /\ Configured = {"telegram", "whatsapp"}) =>
        "whatsapp" \in dispatch.tried

\* C35: an update whose body has no allow-listed key is answered 400 whether
\* or not an incident has the id, and an update is answered 404 only when
\* its body has an allow-listed key and no incident has the id, which it
\* then always is
C35_FieldSetCheckedBeforeLookup ==
    [][(RequestStep /\ resp'.op = "update") =>
           LET supplied == {k \in allowedFields : resp'.body[k] # Undefined}
               stored == resp'.id \in DOMAIN fires
           IN  /\ supplied = {} => resp'.code = 400
               /\ resp'.code = 404 <=> (supplied # {} /\ ~stored)
               /\ resp'.code \in {400, 404} => fires' = fires /\ pending' = pending
      ]_vars

\* C35 happens: an update of an id no incident has, whose body carries only
\* keys off the allow-list, was answered 400
C35_Witness ==
    /\ resp.op = "update"
    /\ resp.code = 400
    /\ resp.id \notin DOMAIN fires
    /\ resp.body["status"] # Undefined
    /\ resp.body["latitude"] # Undefined

\* C36: an auth_failure or a disconnected event clears the login flag and
\* leaves the bound group, the loaded channels and the selected channel as
\* they were; the flag is set again only by an authenticated or a ready
\* event; and a send that finds the flag clear fails with the error of the
\* guard and makes no call on the client
C36_NoSendAfterFallback ==
    [][/\ (session # "UNPAIRED" /\ session' = "UNPAIRED") =>
              /\ ~isLoggedIn'
              /\ UNCHANGED <<groupChat, channels, selectedChannel>>
       /\ (~isLoggedIn /\ isLoggedIn') => session' \in {"AUTHENTICATED", "READY"}
       /\ (SendStep /\ whatsappClient # "null" /\ ~isLoggedIn) =>
              /\ ~out'.success
              /\ out'.error =
                     "WhatsApp client is not logged in. Please scan QR code first."
              /\ calls' = calls
              /\ UNCHANGED <<groupChat, channels, selectedChannel>>
      ]_vars

\* C36 happens: after a disconnect from READY, with a group bound and the
\* channels loaded, a send was refused by the guard
C36_Witness ==
    /\ out.op = "send"
    /\ ~out.success
    /\ out.error = "WhatsApp client is not logged in. Please scan QR code first."
    /\ session = "UNPAIRED"
    /\ groupChat # NoChat
    /\ channels # <<>>
    /\ calls = <<>>

\* C37: the row a create adds has no NULL in any column other than
\* reporter_name and reporter_contact, and carries the default in every
\* column the payload leaves out.  (Refuted: a key the payload carries with
\* the value null is stored as NULL; the defaults replace absent keys only.)
C37_CreatedRowHasNoNull ==
    [][(RequestStep /\ resp'.op = "create") =>
           \A id \in DOMAIN fires' \ DOMAIN fires :
               \A c \in Columns \ {"reporter_name", "reporter_contact"} :
                   /\ fires'[id][c] # Null
                   /\ (resp'.body[c] = Undefined /\ c \in DOMAIN createDefaults) =>
                          fires'[id][c] = Affinity(c, createDefaults[c])
      ]_vars

\* C38: a send that gives no phone number and names a channel, by id or else
\* by name, that none of the loaded channels matches does not go to the
\* selected channel: it goes to the bound group and to no other chat when a
\* group is bound, and otherwise fails with no call made on the client
C38_UnmatchedChannelSkipsSelection ==
    [][(/\ SendStep
        /\ whatsappClient # "null"
        /\ isLoggedIn
        /\ out'.opts.k = "object"
        /\ out'.opts.phoneNumber = ""
        /\ out'.opts.channelId # "" \/ out'.opts.channelName # ""
        /\ \A n \in 1..Len(channels) :
              IF out'.opts.channelId # ""
              THEN out'.opts.channelId
                       \notin {channels[n].id, channels[n].user \o "@newsletter"}
              ELSE out'.opts.channelName # channels[n].name) =>
           IF groupChat # NoChat
           THEN /\ SentTo = {groupChat.id}
                /\ Len(calls') = Len(calls) + 1
           ELSE /\ ~out'.success
                /\ calls' = calls
      ]_vars

\* C38 happens: with a channel selected and a group bound, a send naming a
\* channel id that no loaded channel has went to the group
C38_Witness ==
    /\ out.op = "send"
    /\ out.success
    /\ out.opts.channelId = "nowhere@newsletter"
    /\ selectedChannel # NoChat
    /\ groupChat # NoChat
    /\ calls = <<Call("sendMessage", groupChat.id)>>

\* the bodies that parse as JSON and report ok
OkBodies == {"{\"ok\":true,\"result\":{\"message_id\":7}}", "{\"ok\":true}"}

\* C39: a bot-API send settles with one outcome.  A call without a credential
\* or without a destination is rejected without an https request being made;
\* a call with both makes one request and is pending.  A settled call keeps
\* its outcome whatever event of its request arrives later.  The call is
\* resolved only by the end of a response that parses and reports ok; the end
\* of a response that reports non-ok or cannot be parsed, and an error of the
\* request, reject a pending call.
C39_BotSendSettlesOnce ==
    [][/\ (nops' # nops /\ (botRequest'.botToken = "" \/ botRequest'.chatId = ""))
            => /\ botRequest'.promise = "rejected"
               /\ botRequest'.error = "Telegram bot token and chat ID are required"
               /\ botRequest'.sent = botRequest.sent
               /\ ~botRequest'.open
       /\ (nops' # nops /\ botRequest'.botToken # "" /\ botRequest'.chatId # "")
            => /\ botRequest'.promise = "pending"
               /\ botRequest'.sent = botRequest.sent + 1
       /\ (nops' = nops /\ botRequest.promise \in {"resolved", "rejected"})
            => /\ botRequest'.promise = botRequest.promise
               /\ botRequest'.error = botRequest.error
               /\ botRequest'.sent = botRequest.sent
       /\ (botRequest'.promise = "resolved" /\ botRequest.promise # "resolved")
            => /\ botRequest.promise = "pending"
               /\ ~botRequest.ended /\ botRequest'.ended
               /\ botRequest'.data \in OkBodies
       /\ (botRequest.promise = "pending" /\ ~botRequest.ended
              /\ botRequest'.ended /\ botRequest'.data \notin OkBodies)
            => botRequest'.promise = "rejected"
       /\ (botRequest.promise = "pending" /\ ~botRequest.failed
              /\ botRequest'.failed)
            => /\ botRequest'.promise = "rejected"
               /\ botRequest'.error = "Telegram request failed: socket hang up"
      ]_vars

\* C39: a call that was resolved by its response and whose request then
\* emitted an error, after an earlier call was rejected for a missing
\* destination
C39_Witness ==
    /\ botRequest.promise = "resolved"
    /\ botRequest.ended
    /\ botRequest.failed
    /\ botRequest.sent = 1
    /\ nops = 2

\* C40: the text does not depend on the channel.  Whenever one of the two
\* senders has built its text from a message, evacuation points and
\* a location, the other sender builds the same text from the same three
\* arguments.
C40_TextSameOnBothChannels ==
    (out.op = "text" /\ out.success)
        => TelegramText(out.opts.message, out.opts.evacuationPoints,
                        out.opts.location)
             = WhatsAppText(out.opts.message, out.opts.evacuationPoints,
                            out.opts.location)

=============================================================================
